---- MODULE Spec2Model ----
(***************************************************************************)
(* Model of the VWAP scalper's decision engine: the incremental VWAP       *)
(* calculator (vwap.ts), the risk ledger (risk-manager.ts) and the         *)
(* strategy state machine (strategy.ts).                                   *)
(*                                                                         *)
(* Numbers: prices, volumes and P&L are integers.  A quotient the code     *)
(* computes in floating point is kept as an exact fraction [num, den] and  *)
(* compared by cross-multiplication.  Percentages are integer percent, so  *)
(* price * (1 - pct) is kept scaled by 100.  Timestamps are milliseconds   *)
(* since the epoch, as in the code.                                        *)
(***************************************************************************)
EXTENDS Integers, Sequences, FiniteSets, TLC

VARIABLES
    vwapState,   \* VWAPState of the instrument under test (vwap.ts)
    hist,        \* every (price, volume) sample ever passed to updateVWAP
    strategy,    \* StrategyState: positions, pendingSignals (strategy.ts)
    risk,        \* RiskState: the shared risk ledger (risk-manager.ts)
    now,         \* the caller's clock, ms since the epoch
    checkedDay,  \* calendar day on which the ledger was created or last checked for a daily reset
    closes,      \* number of positions closed so far
    steps,       \* number of market-data steps the strategy engine has taken
    last,        \* what the last step did (operation, arguments, result)
    backtest,    \* runBacktest's locals: trades, peakPnL, maxDrawdown (backtest.ts:54-56)
    orders,      \* gateway calls of the live handler whose promise has not settled (bot.ts:117-131)
    shutdown     \* the live process: runBot's and stopBot's positions, the data stream (bot.ts:214-285)

vars == <<vwapState, hist, strategy, risk, now, checkedDay, closes, steps, last, backtest, orders, shutdown>>

(***************************************************************************)
(* JavaScript values                                                       *)
(***************************************************************************)
\* A value that may be absent (number | null, number | undefined) is a tuple:
\* <<>> when absent, <<v>> when present.  The code never tells null from
\* undefined on the values modelled here.
null == <<>>
undefined == <<>>
Some(v) == <<v>>
Val(o) == o[1]

\* JS truthiness of a number | null | undefined value: 0 is falsy
Truthy(o) == o # <<>> /\ Val(o) # 0

\* a || b, for an optional number a and a number b
OrElse(a, b) == IF Truthy(a) THEN Val(a) ELSE b

Rat(n, d) == [num |-> n, den |-> d]

\* equality of two fractions with non-zero denominators
RatEq(a, b) == a.num * b.den = b.num * a.den

RECURSIVE SumSeq(_)
SumSeq(s) == IF s = <<>> THEN 0 ELSE Head(s) + SumSeq(Tail(s))

Min(a, b) == IF a < b THEN a ELSE b

(***************************************************************************)
(* Bounds of the VWAP model                                                *)
(***************************************************************************)
MaxUpdates == 4
MaxPeriod == 3
MaxVolume == 2
PriceLo == 10
PriceHi == 11

Periods == 0..MaxPeriod
Prices == PriceLo..PriceHi
Volumes == 0..MaxVolume

(***************************************************************************)
(* vwap.ts                                                                 *)
(***************************************************************************)
createVWAPState(period) ==
    [period |-> period,
     dataPoints |-> <<>>,
     cumulativePriceVolume |-> 0,
     cumulativeVolume |-> 0]

\* Mutants of the rolling-window step: the evicted sample's contribution is
\* left in the accumulators; the newest sample is dropped instead of the
\* oldest; the period > 0 test is lost.
EvictOldest_KeepContribution(period, points, pv, v) ==
    IF period > 0 /\ Len(points) > period
    THEN [dataPoints |-> Tail(points),
          cumulativePriceVolume |-> pv,
          cumulativeVolume |-> v]
    ELSE [dataPoints |-> points,
          cumulativePriceVolume |-> pv,
          cumulativeVolume |-> v]

EvictOldest_DropNewest(period, points, pv, v) ==
    IF period > 0 /\ Len(points) > period
    THEN [dataPoints |-> SubSeq(points, 1, Len(points) - 1),
          cumulativePriceVolume |->
              pv - points[Len(points)].price * points[Len(points)].volume,
          cumulativeVolume |-> v - points[Len(points)].volume]
    ELSE [dataPoints |-> points,
          cumulativePriceVolume |-> pv,
          cumulativeVolume |-> v]

EvictOldest_AnyPeriod(period, points, pv, v) ==
    IF Len(points) > period
    THEN [dataPoints |-> Tail(points),
          cumulativePriceVolume |-> pv - Head(points).price * Head(points).volume,
          cumulativeVolume |-> v - Head(points).volume]
    ELSE [dataPoints |-> points,
          cumulativePriceVolume |-> pv,
          cumulativeVolume |-> v]

\* Mutant: the window is never trimmed
EvictOldest_Never(period, points, pv, v) ==
    [dataPoints |-> points, cumulativePriceVolume |-> pv, cumulativeVolume |-> v]

\* The rolling-window step of updateVWAP: drop the oldest sample and
\* subtract its contribution, when period > 0 and the window is over-full.
EvictOldest(period, points, pv, v) ==
    IF period > 0 /\ Len(points) > period
    THEN [dataPoints |-> Tail(points),
          cumulativePriceVolume |-> pv - Head(points).price * Head(points).volume,
          cumulativeVolume |-> v - Head(points).volume]
    ELSE [dataPoints |-> points,
          cumulativePriceVolume |-> pv,
          cumulativeVolume |-> v]

updateVWAP(state, price, volume, high, low) ==
    LET h == OrElse(high, price)
        l == OrElse(low, price)
        currentVWAP ==
            IF state.cumulativeVolume > 0
            THEN Some(Rat(state.cumulativePriceVolume + price * volume,
                          state.cumulativeVolume + volume))
            ELSE undefined
        newDataPoint == [price |-> price, high |-> h, low |-> l,
                         volume |-> volume, vwap |-> currentVWAP]
        w == EvictOldest(state.period,
                         Append(state.dataPoints, newDataPoint),
                         state.cumulativePriceVolume + price * volume,
                         state.cumulativeVolume + volume)
    IN  [period |-> state.period,
         dataPoints |-> w.dataPoints,
         cumulativePriceVolume |-> w.cumulativePriceVolume,
         cumulativeVolume |-> w.cumulativeVolume]

\* Mutant: the window test is off by one
getVWAP_OffByOne(state) ==
    IF state.cumulativeVolume = 0 THEN null
    ELSE IF state.period > 0 /\ Len(state.dataPoints) <= state.period THEN null
    ELSE Some(Rat(state.cumulativePriceVolume, state.cumulativeVolume))

getVWAP(state) ==
    IF state.cumulativeVolume = 0 THEN null
    ELSE IF state.period > 0 /\ Len(state.dataPoints) < state.period THEN null
    ELSE Some(Rat(state.cumulativePriceVolume, state.cumulativeVolume))

(***************************************************************************)
(* Configuration (config.ts).  The risk limits with a default in           *)
(* loadConfig keep it; those without one are small values of the model.    *)
(***************************************************************************)
max_trades_per_day == 3
max_losses_per_day == 2
cooldown_minutes == 5
max_positions == 2
max_daily_loss == 3
initial_capital == 10000

Symbols == {"AAPL", "MSFT", "SPY"}

MsPerMinute == 60000
MsPerDay == 86400000

(***************************************************************************)
(* risk-manager.ts.  The local time zone of the process is UTC (the        *)
(* container image sets none), so local midnight is a multiple of a day.   *)
(***************************************************************************)
getNextResetTime(fromTime) == ((fromTime \div MsPerDay) + 1) * MsPerDay

createRiskState(startTime) ==
    [dailyPnL |-> 0,
     currentBalance |-> initial_capital,
     positions |-> <<>>,
     dailyResetTime |-> getNextResetTime(startTime),
     tradesToday |-> 0,
     lossesToday |-> 0,
     lastLossTime |-> null]

\* Map.size
MapSize(m) == Cardinality(DOMAIN m)

\* new Map(m).set(k, v)
MapSet(m, k, v) == [x \in (DOMAIN m) \cup {k} |-> IF x = k THEN v ELSE m[x]]

\* Mutant: deleting one key empties the map
MapDelete_Clear(m, k) == <<>>

\* Mutant: deleting a key leaves the map as it was
MapDelete_Keep(m, k) == m

\* new Map(m).delete(k)
MapDelete(m, k) == [x \in (DOMAIN m) \ {k} |-> m[x]]

\* the cooldown gate of canOpenPosition: TRUE when it rejects
InCooldown(state, currentTime) ==
    /\ Truthy(state.lastLossTime)
    /\ (currentTime - Val(state.lastLossTime)) < cooldown_minutes * MsPerMinute

\* Mutant: the position cap is compared with > instead of >=
canOpenPosition_CapOffByOne(state, currentTime) ==
    IF MapSize(state.positions) > max_positions THEN FALSE
    ELSE IF state.tradesToday >= max_trades_per_day THEN FALSE
    ELSE IF state.lossesToday >= max_losses_per_day THEN FALSE
    ELSE IF InCooldown(state, currentTime) THEN FALSE
    ELSE IF state.dailyPnL <= -max_daily_loss THEN FALSE
    ELSE TRUE

canOpenPosition(state, currentTime) ==
    IF MapSize(state.positions) >= max_positions THEN FALSE
    ELSE IF state.tradesToday >= max_trades_per_day THEN FALSE
    ELSE IF state.lossesToday >= max_losses_per_day THEN FALSE
    ELSE IF InCooldown(state, currentTime) THEN FALSE
    ELSE IF state.dailyPnL <= -max_daily_loss THEN FALSE
    ELSE TRUE

\* recordPosition counting the trade when it opens
recordPosition_CountsTrade(state, symbol, entryPrice, quantity, currentTime) ==
    [state EXCEPT !.positions =
        MapSet(state.positions, symbol,
               [symbol |-> symbol, entryPrice |-> entryPrice,
                quantity |-> quantity, entryTime |-> currentTime]),
                  !.tradesToday = state.tradesToday + 1]

recordPosition(state, symbol, entryPrice, quantity, currentTime) ==
    [state EXCEPT !.positions =
        MapSet(state.positions, symbol,
               [symbol |-> symbol, entryPrice |-> entryPrice,
                quantity |-> quantity, entryTime |-> currentTime])]

\* closePosition counting a break-even close as a loss
closePosition_ZeroIsLoss(state, symbol, pnl, currentTime) ==
    LET isLoss == pnl <= 0
    IN  [state EXCEPT
            !.positions = MapDelete(state.positions, symbol),
            !.dailyPnL = state.dailyPnL + pnl,
            !.currentBalance = state.currentBalance + pnl,
            !.tradesToday = state.tradesToday + 1,
            !.lossesToday = IF isLoss THEN state.lossesToday + 1
                            ELSE state.lossesToday,
            !.lastLossTime = IF isLoss THEN Some(currentTime)
                             ELSE state.lastLossTime]

closePosition(state, symbol, pnl, currentTime) ==
    LET isLoss == pnl < 0
    IN  [state EXCEPT
            !.positions = MapDelete(state.positions, symbol),
            !.dailyPnL = state.dailyPnL + pnl,
            !.currentBalance = state.currentBalance + pnl,
            !.tradesToday = state.tradesToday + 1,
            !.lossesToday = IF isLoss THEN state.lossesToday + 1
                            ELSE state.lossesToday,
            !.lastLossTime = IF isLoss THEN Some(currentTime)
                             ELSE state.lastLossTime]

\* resetDailyPnL reads Date.now() for the next reset time: dateNow
resetDailyPnL(state, dateNow) ==
    [state EXCEPT
        !.dailyPnL = 0,
        !.dailyResetTime = getNextResetTime(dateNow),
        !.tradesToday = 0,
        !.lossesToday = 0,
        !.lastLossTime = null]

checkAndResetIfNeeded(state, dateNow) ==
    IF dateNow >= state.dailyResetTime THEN resetDailyPnL(state, dateNow)
    ELSE state

\* Mutant: the next reset time is not recomputed
checkDailyReset_KeepResetTime(state, currentTime) ==
    IF currentTime < state.dailyResetTime THEN state
    ELSE [state EXCEPT
            !.dailyPnL = 0,
            !.tradesToday = 0,
            !.lossesToday = 0]

checkDailyReset(state, currentTime) ==
    IF currentTime < state.dailyResetTime THEN state
    ELSE [state EXCEPT
            !.dailyPnL = 0,
            !.tradesToday = 0,
            !.lossesToday = 0,
            !.dailyResetTime = getNextResetTime(currentTime)]

(***************************************************************************)
(* utils/indicators.ts.  Results are exact fractions.                      *)
(***************************************************************************)
Abs(x) == IF x < 0 THEN -x ELSE x
Max(a, b) == IF a > b THEN a ELSE b
Max3(a, b, c) == Max(a, Max(b, c))

\* p < r, p <= r, p > r, p >= r for an integer p and a fraction r (r.den > 0)
IntLt(p, r) == p * r.den < r.num
IntLe(p, r) == p * r.den <= r.num
IntGt(p, r) == p * r.den > r.num
IntGe(p, r) == p * r.den >= r.num
RatLt(a, b) == a.num * b.den < b.num * a.den

\* array.slice(-n)
SliceLast(s, n) == IF Len(s) <= n THEN s ELSE SubSeq(s, Len(s) - n + 1, Len(s))

atr_default_period == 14

\* true range of data[i] against data[i - 1]; the data points carry no
\* `close`, so prevClose is prev.price
TrueRange(data, i) ==
    LET high == OrElse(Some(data[i].high), data[i].price)
        low == OrElse(Some(data[i].low), data[i].price)
        prevClose == data[i - 1].price
    IN  Max3(high - low, Abs(high - prevClose), Abs(low - prevClose))

calculateATR(data, period) ==
    IF Len(data) < period + 1 THEN null
    ELSE LET relevantData == SliceLast(data, period + 1)
         IN  Some(Rat(SumSeq([i \in 1..period |-> TrueRange(relevantData, i + 1)]),
                      period))

\* greatest common divisor of two non-negative integers
RECURSIVE GCD(_, _)
GCD(a, b) == IF b = 0 THEN a ELSE GCD(b, a % b)

\* the smoothing loop of calculateRSI from index i (0-based) on; avgGain and
\* avgLoss are g / den and l / den, kept in lowest
\* terms
RECURSIVE RSISmooth(_, _, _, _, _, _)
RSISmooth(prices, period, i, g, l, den) ==
    IF i >= Len(prices) THEN [gain |-> g, loss |-> l, den |-> den]
    ELSE LET change == prices[i + 1] - prices[i]
             gain == IF change > 0 THEN change ELSE 0
             loss == IF change < 0 THEN -change ELSE 0
             g1 == g * (period - 1) + gain * den
             l1 == l * (period - 1) + loss * den
             den1 == den * period
             k == GCD(GCD(g1, l1), den1)
         IN  RSISmooth(prices, period, i + 1, g1 \div k, l1 \div k, den1 \div k)

calculateRSI(prices, period) ==
    IF Len(prices) < period + 1 THEN null
    ELSE LET changes == [i \in 1..period |-> prices[i + 1] - prices[i]]
             gains == SumSeq([i \in 1..period |->
                                 IF changes[i] > 0 THEN changes[i] ELSE 0])
             losses == SumSeq([i \in 1..period |->
                                 IF changes[i] > 0 THEN 0 ELSE -changes[i]])
             avg == RSISmooth(prices, period, period + 1, gains, losses, period)
         IN  IF avg.loss = 0 THEN Some(Rat(100, 1))
             ELSE \* 100 - 100 / (1 + avgGain / avgLoss)
                  Some(Rat(100 * avg.gain, avg.gain + avg.loss))

\* number of changes of side counted by isChoppy over positions 2..n of the
\* recent observations; above[i] is recentPrices[i] > recentVWAPs[i]
RECURSIVE Crosses(_, _, _)
\* Mutant: every observation is compared with the side of the first one
Crosses_AgainstFirst(above, i, wasAbove) ==
    Cardinality({j \in i..Len(above) : above[j] # wasAbove})

Crosses(above, i, wasAbove) ==
    IF i > Len(above) THEN 0
    ELSE IF above[i] # wasAbove THEN 1 + Crosses(above, i + 1, above[i])
    ELSE Crosses(above, i + 1, wasAbove)

\* prices are integers, vwaps fractions
isChoppy(prices, vwaps, period, threshold) ==
    IF Len(prices) < period \/ Len(vwaps) < period THEN FALSE
    ELSE LET recentPrices == SliceLast(prices, period)
             recentVWAPs == SliceLast(vwaps, period)
             above == [i \in 1..period |-> IntGt(recentPrices[i], recentVWAPs[i])]
         IN  Crosses(above, 2, above[1]) >= threshold

(***************************************************************************)
(* strategy.ts.  Fractions of the configuration (stop_loss_pct and the     *)
(* like) are records Rat(n, d); price levels derived from them are exact   *)
(* fractions.  An optional setting is null when the configuration omits it.*)
(***************************************************************************)
MsPerSecond == 1000
MsPerHour == 3600000

getUTCHours(t) == (t % MsPerDay) \div MsPerHour
getUTCMinutes(t) == (t % MsPerHour) \div MsPerMinute

\* x * (1 + f) and x * (1 - f) for an integer x and a fraction f
ScaleUp(x, f) == Rat(x * (f.den + f.num), f.den)
ScaleDown(x, f) == Rat(x * (f.den - f.num), f.den)

createStrategyState(config) ==
    [config |-> config, positions |-> <<>>, pendingSignals |-> <<>>]

calculatePnL(position, currentPrice) ==
    IF position.side = "long"
    THEN (currentPrice - position.entryPrice) * position.quantity
    ELSE (position.entryPrice - currentPrice) * position.quantity

\* Mutant: a quantity below 1 is kept
EntryQuantity_NoFallback(config, riskState, entryPrice) ==
    IF config.sizing_type = "risk_pct" /\ config.max_risk_pct # null
       /\ Val(config.max_risk_pct).num # 0
       /\ entryPrice * config.stop_loss_pct.num > 0
    THEN (riskState.currentBalance * Val(config.max_risk_pct).num
            * config.stop_loss_pct.den)
         \div (entryPrice * config.stop_loss_pct.num
                 * Val(config.max_risk_pct).den)
    ELSE config.size

\* the quantity computed at the head of enterLongPosition and
\* enterShortPosition
EntryQuantity(config, riskState, entryPrice) ==
    LET sized ==
            IF config.sizing_type = "risk_pct" /\ config.max_risk_pct # null
               /\ Val(config.max_risk_pct).num # 0
               /\ entryPrice * config.stop_loss_pct.num > 0
            THEN \* floor((balance * max_risk_pct) / (entryPrice * stop_loss_pct))
                 (riskState.currentBalance * Val(config.max_risk_pct).num
                    * config.stop_loss_pct.den)
                 \div (entryPrice * config.stop_loss_pct.num
                         * Val(config.max_risk_pct).den)
            ELSE config.size
    IN  IF sized < 1 THEN 1 ELSE sized

enterLongPosition(strategyState, riskState, symbol, entryPrice, currentTime) ==
    LET config == strategyState.config
        quantity == EntryQuantity(config, riskState, entryPrice)
        position ==
            [symbol |-> symbol,
             side |-> "long",
             entryPrice |-> entryPrice,
             quantity |-> quantity,
             entryTime |-> currentTime,
             stopLoss |-> ScaleDown(entryPrice, config.stop_loss_pct),
             takeProfit |-> ScaleUp(entryPrice, config.take_profit_pct),
             trailingStop |->
                IF config.trailing_stop
                THEN Some(ScaleDown(entryPrice, config.trailing_stop_pct))
                ELSE undefined]
    IN  <<[strategyState EXCEPT
              !.positions = MapSet(strategyState.positions, symbol, position)],
          recordPosition(riskState, symbol, entryPrice, quantity, currentTime)>>

enterShortPosition(strategyState, riskState, symbol, entryPrice, currentTime) ==
    LET config == strategyState.config
        quantity == EntryQuantity(config, riskState, entryPrice)
        position ==
            [symbol |-> symbol,
             side |-> "short",
             entryPrice |-> entryPrice,
             quantity |-> quantity,
             entryTime |-> currentTime,
             stopLoss |-> ScaleUp(entryPrice, config.stop_loss_pct),
             takeProfit |-> ScaleDown(entryPrice, config.take_profit_pct),
             trailingStop |->
                IF config.trailing_stop
                THEN Some(ScaleUp(entryPrice, config.trailing_stop_pct))
                ELSE undefined]
    IN  <<[strategyState EXCEPT
              !.positions = MapSet(strategyState.positions, symbol, position)],
          recordPosition(riskState, symbol, entryPrice, -quantity, currentTime)>>

\* Mutant: the exit leaves the ledger entry in place
exitPosition_KeepLedgerEntry(strategyState, riskState, symbol, exitPrice, reason, pnl, currentTime) ==
    IF symbol \notin DOMAIN strategyState.positions
    THEN <<strategyState, riskState>>
    ELSE <<[strategyState EXCEPT
               !.positions = MapDelete(strategyState.positions, symbol)],
           [closePosition(riskState, symbol, pnl, currentTime) EXCEPT
               !.positions = riskState.positions]>>

exitPosition(strategyState, riskState, symbol, exitPrice, reason, pnl, currentTime) ==
    IF symbol \notin DOMAIN strategyState.positions
    THEN <<strategyState, riskState>>
    ELSE <<[strategyState EXCEPT
               !.positions = MapDelete(strategyState.positions, symbol)],
           closePosition(riskState, symbol, pnl, currentTime)>>

\* a trailing stop that is set is a positive level, hence truthy
TrailingActive(config, position) ==
    config.trailing_stop /\ position.trailingStop # undefined
    /\ Val(position.trailingStop).num # 0

\* the trailing level following the price in both directions
RatchetTrailing_FollowPrice(config, position, currentPrice) ==
    LET newTrailing == IF position.side = "long"
                       THEN ScaleDown(currentPrice, config.trailing_stop_pct)
                       ELSE ScaleUp(currentPrice, config.trailing_stop_pct)
    IN  IF TrailingActive(config, position)
        THEN [position EXCEPT !.trailingStop = Some(newTrailing)]
        ELSE position

\* the position after the trailing-stop update of managePosition: the level
\* moves with the price in the favourable direction only
RatchetTrailing(config, position, currentPrice) ==
    LET newTrailing == IF position.side = "long"
                       THEN ScaleDown(currentPrice, config.trailing_stop_pct)
                       ELSE ScaleUp(currentPrice, config.trailing_stop_pct)
        moved == IF position.side = "long"
                 THEN RatLt(Val(position.trailingStop), newTrailing)
                 ELSE RatLt(newTrailing, Val(position.trailingStop))
    IN  IF TrailingActive(config, position) /\ moved
        THEN [position EXCEPT !.trailingStop = Some(newTrailing)]
        ELSE position

\* Mutant: the take-profit test comes before the time stop and the stop loss
exitReason_TakeProfitFirst(config, position, currentPrice, currentTime) ==
    IF position.side = "long" /\ IntGe(currentPrice, position.takeProfit)
    THEN "TAKE_PROFIT"
    ELSE IF position.side = "short" /\ IntLe(currentPrice, position.takeProfit)
    THEN "TAKE_PROFIT"
    ELSE IF Truthy(config.max_hold_seconds)
            /\ currentTime - position.entryTime
                  >= Val(config.max_hold_seconds) * MsPerSecond
    THEN "TIME_STOP"
    ELSE IF position.side = "long" /\ IntLe(currentPrice, position.stopLoss)
    THEN "STOP_LOSS"
    ELSE IF position.side = "short" /\ IntGe(currentPrice, position.stopLoss)
    THEN "STOP_LOSS"
    ELSE IF TrailingActive(config, position)
            /\ IF position.side = "long"
               THEN IntLe(currentPrice,
                          Val(RatchetTrailing(config, position,
                                              currentPrice).trailingStop))
               ELSE IntGe(currentPrice,
                          Val(RatchetTrailing(config, position,
                                              currentPrice).trailingStop))
    THEN "TRAILING_STOP"
    ELSE "NONE"

\* the reason managePosition hands to exitPosition (and exitPosition to the
\* trade log), "NONE" when it keeps the position
exitReason(config, position, currentPrice, currentTime) ==
    IF Truthy(config.max_hold_seconds)
       /\ currentTime - position.entryTime
             >= Val(config.max_hold_seconds) * MsPerSecond
    THEN "TIME_STOP"
    ELSE IF position.side = "long" /\ IntLe(currentPrice, position.stopLoss)
    THEN "STOP_LOSS"
    ELSE IF position.side = "short" /\ IntGe(currentPrice, position.stopLoss)
    THEN "STOP_LOSS"
    ELSE IF position.side = "long" /\ IntGe(currentPrice, position.takeProfit)
    THEN "TAKE_PROFIT"
    ELSE IF position.side = "short" /\ IntLe(currentPrice, position.takeProfit)
    THEN "TAKE_PROFIT"
    ELSE IF TrailingActive(config, position)
            /\ IF position.side = "long"
               THEN IntLe(currentPrice,
                          Val(RatchetTrailing(config, position,
                                              currentPrice).trailingStop))
               ELSE IntGe(currentPrice,
                          Val(RatchetTrailing(config, position,
                                              currentPrice).trailingStop))
    THEN "TRAILING_STOP"
    ELSE "NONE"

managePosition(strategyState, riskState, symbol, currentPrice, vwap, position, currentTime) ==
    LET config == strategyState.config
        pnl == calculatePnL(position, currentPrice)
        reason == exitReason(config, position, currentPrice, currentTime)
    IN  IF reason # "NONE"
        THEN exitPosition(strategyState, riskState, symbol, currentPrice, reason,
                          pnl, currentTime)
        ELSE <<[strategyState EXCEPT
                   !.positions = MapSet(strategyState.positions, symbol,
                                        RatchetTrailing(config, position,
                                                        currentPrice))],
               riskState>>

\* d.vwap || d.price
VwapOrPrice(d) ==
    IF d.vwap # undefined /\ Val(d.vwap).num # 0 THEN Val(d.vwap)
    ELSE Rat(d.price, 1)

\* outside the trading window of checkEntrySignals; the configured times
\* are shifted by five hours and compared with the UTC clock
OutsideSchedule(config, currentTime) ==
    LET utcStartH == config.start_time.h + 5
        utcEndH == config.end_time.h + 5
        currentH == getUTCHours(currentTime)
        currentM == getUTCMinutes(currentTime)
    IN  \/ currentH < utcStartH
        \/ (currentH = utcStartH /\ currentM < config.start_time.m)
        \/ currentH > utcEndH
        \/ (currentH = utcEndH /\ currentM >= config.end_time.m)

\* the volume filter rejects
LowVolume(config, vwapSt) ==
    LET volumes == [i \in 1..Len(vwapSt.dataPoints) |->
                       vwapSt.dataPoints[i].volume]
        recentVolumes == SliceLast(volumes, 20)
        currentVol == volumes[Len(volumes)]
    IN  /\ Len(volumes) > 20
        \* currentVol < avgVol * min_volume_mult
        /\ currentVol * Len(recentVolumes) * config.min_volume_mult.den
              < SumSeq(recentVolumes) * config.min_volume_mult.num

\* the ATR filter rejects; atr is a fraction
LowVolatility(config, atr, currentPrice) ==
    /\ config.min_atr_pct # null
    /\ Val(config.min_atr_pct).num > 0
    \* atr / currentPrice < minAtrPct
    /\ atr.num * Val(config.min_atr_pct).den
          < Val(config.min_atr_pct).num * atr.den * currentPrice

\* deviation < -entryThreshold and deviation > entryThreshold, where
\* deviation = (currentPrice - vwap) / vwap and vwap > 0
DeviationBelow(currentPrice, vwap, thr) ==
    (currentPrice * vwap.den - vwap.num) * thr.den < -(thr.num * vwap.num)
DeviationAbove(currentPrice, vwap, thr) ==
    (currentPrice * vwap.den - vwap.num) * thr.den > thr.num * vwap.num

\* the RSI test of the long setup passing whatever the RSI
Oversold_Always(config, rsi) == TRUE

\* rsi < rsiOversold and rsi > rsiOverbought, with the defaults 40 and 60
Oversold(config, rsi) == RatLt(rsi, Rat(OrElse(config.rsi_oversold, 40), 1))
Overbought(config, rsi) == RatLt(Rat(OrElse(config.rsi_overbought, 60), 1), rsi)

\* Mutant: entries are not gated by the risk manager
EntryAllowed_Always(riskState, currentTime) == TRUE

\* Mutant: only the daily loss limit is tested before an entry
EntryAllowed_DailyLossOnly(riskState, currentTime) ==
    riskState.dailyPnL > -max_daily_loss

\* the first test of checkEntrySignals
EntryAllowed(riskState, currentTime) == canOpenPosition(riskState, currentTime)

checkEntrySignals(strategyState, riskState, symbol, currentPrice, vwap, atr, rsi, vwapSt, currentTime) ==
    LET config == strategyState.config
        points == vwapSt.dataPoints
        prices == [i \in 1..Len(points) |-> points[i].price]
        vwaps == [i \in 1..Len(points) |-> VwapOrPrice(points[i])]
        unchanged == <<strategyState, riskState>>
        cleared == [strategyState EXCEPT
                       !.pendingSignals =
                           MapDelete(strategyState.pendingSignals, symbol)]
        pend(type) ==
            <<[strategyState EXCEPT
                  !.pendingSignals =
                      MapSet(strategyState.pendingSignals, symbol,
                             [type |-> type,
                              triggerCandleTime |-> currentTime,
                              triggerPrice |-> currentPrice])],
              riskState>>
        shortSide ==
            IF DeviationAbove(currentPrice, vwap, config.entry_threshold)
               /\ Overbought(config, rsi)
            THEN IF config.require_confirmation = "false"
                 THEN enterShortPosition(strategyState, riskState, symbol,
                                         currentPrice, currentTime)
                 ELSE pend("potential_short")
            ELSE unchanged
    IN  IF ~EntryAllowed(riskState, currentTime) THEN unchanged
        ELSE IF OutsideSchedule(config, currentTime) THEN unchanged
        ELSE IF LowVolume(config, vwapSt) THEN unchanged
        ELSE IF LowVolatility(config, atr, currentPrice) THEN unchanged
        ELSE IF isChoppy(prices, vwaps, 20, config.chop_threshold) THEN unchanged
        ELSE IF symbol \in DOMAIN strategyState.pendingSignals
        THEN IF strategyState.pendingSignals[symbol].type = "potential_long"
             THEN IF IntLt(currentPrice, vwap) THEN <<cleared, riskState>>
                  ELSE enterLongPosition(cleared, riskState, symbol,
                                         currentPrice, currentTime)
             ELSE IF IntGt(currentPrice, vwap) THEN <<cleared, riskState>>
                  ELSE enterShortPosition(cleared, riskState, symbol,
                                          currentPrice, currentTime)
        ELSE IF DeviationBelow(currentPrice, vwap, config.entry_threshold)
                /\ Oversold(config, rsi)
        THEN IF config.require_confirmation = "false"
             THEN enterLongPosition(strategyState, riskState, symbol,
                                    currentPrice, currentTime)
             ELSE pend("potential_long")
        ELSE shortSide

\* an observation that leaves a flat instrument as it was also drops the
\* instrument's pending signal
evaluateWithIndicators_DropsPending(strategyState, riskState, symbol, currentPrice, vwap, vs, atr, rsi, currentTime) ==
    LET hour == getUTCHours(currentTime)
        min == getUTCMinutes(currentTime)
        entry == checkEntrySignals(strategyState, riskState, symbol,
                                   currentPrice, vwap, Val(atr), Val(rsi), vs,
                                   currentTime)
    IN  IF rsi = null \/ atr = null THEN <<strategyState, riskState>>
        ELSE IF symbol \in DOMAIN strategyState.positions
        THEN LET position == strategyState.positions[symbol]
             IN  IF hour >= 20 /\ min >= 55
                 THEN exitPosition(strategyState, riskState, symbol, currentPrice,
                                   "EOD_FORCE_EXIT",
                                   calculatePnL(position, currentPrice),
                                   currentTime)
                 ELSE managePosition(strategyState, riskState, symbol,
                                     currentPrice, vwap, position, currentTime)
        ELSE IF entry = <<strategyState, riskState>>
        THEN <<[strategyState EXCEPT
                   !.pendingSignals =
                       MapDelete(strategyState.pendingSignals, symbol)],
               riskState>>
        ELSE entry

\* Mutant: an evaluation that closes the position goes on to look for an entry
evaluateWithIndicators_ReentersAfterExit(strategyState, riskState, symbol, currentPrice, vwap, vs, atr, rsi, currentTime) ==
    LET hour == getUTCHours(currentTime)
        min == getUTCMinutes(currentTime)
    IN  IF rsi = null \/ atr = null THEN <<strategyState, riskState>>
        ELSE IF symbol \in DOMAIN strategyState.positions
        THEN LET position == strategyState.positions[symbol]
                 managed ==
                     IF hour >= 20 /\ min >= 55
                     THEN exitPosition(strategyState, riskState, symbol,
                                       currentPrice, "EOD_FORCE_EXIT",
                                       calculatePnL(position, currentPrice),
                                       currentTime)
                     ELSE managePosition(strategyState, riskState, symbol,
                                         currentPrice, vwap, position, currentTime)
             IN  IF symbol \in DOMAIN managed[1].positions THEN managed
                 ELSE checkEntrySignals(managed[1], managed[2], symbol,
                                        currentPrice, vwap, Val(atr), Val(rsi),
                                        vs, currentTime)
        ELSE checkEntrySignals(strategyState, riskState, symbol, currentPrice,
                               vwap, Val(atr), Val(rsi), vs, currentTime)

\* evaluateStrategy from the test of the indicators on (part_001:683-735);
\* atr and rsi are calculateATR's and calculateRSI's results
evaluateWithIndicators(strategyState, riskState, symbol, currentPrice, vwap, vs, atr, rsi, currentTime) ==
    LET hour == getUTCHours(currentTime)
        min == getUTCMinutes(currentTime)
    IN  IF rsi = null \/ atr = null THEN <<strategyState, riskState>>
        ELSE IF symbol \in DOMAIN strategyState.positions
        THEN LET position == strategyState.positions[symbol]
             IN  IF hour >= 20 /\ min >= 55
                 THEN exitPosition(strategyState, riskState, symbol, currentPrice,
                                   "EOD_FORCE_EXIT",
                                   calculatePnL(position, currentPrice),
                                   currentTime)
                 ELSE managePosition(strategyState, riskState, symbol,
                                     currentPrice, vwap, position, currentTime)
        ELSE checkEntrySignals(strategyState, riskState, symbol, currentPrice,
                               vwap, Val(atr), Val(rsi), vs, currentTime)

PricesOf(vs) == [i \in 1..Len(vs.dataPoints) |-> vs.dataPoints[i].price]

\* a held position managed although the indicators are missing
evaluateStrategy_ManageWithoutIndicators(strategyState, riskState, symbol, currentPrice, vwap, vwapSt, currentTime) ==
    IF vwapSt = undefined THEN <<strategyState, riskState>>
    ELSE IF symbol \in DOMAIN strategyState.positions
    THEN managePosition(strategyState, riskState, symbol, currentPrice, vwap,
                        strategyState.positions[symbol], currentTime)
    ELSE <<strategyState, riskState>>

\* the vwapState argument (vwapSt) is optional; vwap is a fraction
evaluateStrategy(strategyState, riskState, symbol, currentPrice, vwap, vwapSt, currentTime) ==
    IF vwapSt = undefined THEN <<strategyState, riskState>>
    ELSE evaluateWithIndicators(
             strategyState, riskState, symbol, currentPrice, vwap, Val(vwapSt),
             calculateATR(Val(vwapSt).dataPoints, atr_default_period),
             calculateRSI(PricesOf(Val(vwapSt)),
                          OrElse(strategyState.config.rsi_period, 14)),
             currentTime)

(***************************************************************************)
(* The VWAP calculator driven as handleMarketData drives it (bot.ts:79):   *)
(* updateVWAP(state, price, volume) with no high/low.  hist remembers      *)
(* every sample ingested since createVWAPState.                            *)
(***************************************************************************)
idleStrategy == [positions |-> <<>>, pendingSignals |-> <<>>]
idleRisk == createRiskState(0)
idleVWAP == createVWAPState(0)
\* backtest.ts:54-56, and no sampled log line written yet
idleBacktest == [trades |-> <<>>, peakPnL |-> 0, maxDrawdown |-> 0, logged |-> {}]
\* createBot: alpaca.dataStream is null (alpaca-client.ts:24-28); runBot has
\* not subscribed and no signal has arrived
idleShutdown ==
    [run |-> "starting", stop |-> "idle", botDataStream |-> null,
     runDataStream |-> null, connected |-> FALSE]

InitVWAP ==
    /\ vwapState \in {createVWAPState(p) : p \in Periods}
    /\ hist = <<>>
    /\ strategy = idleStrategy
    /\ risk = idleRisk
    /\ now = 0
    /\ checkedDay = 0
    /\ closes = 0
    /\ steps = 0
    /\ backtest = idleBacktest
    /\ orders = {}
    /\ shutdown = idleShutdown
    /\ last = [op |-> "createVWAPState"]

VwapUpdate ==
    /\ Len(hist) < MaxUpdates
    /\ \E price \in Prices, volume \in Volumes :
        /\ vwapState' = updateVWAP(vwapState, price, volume, undefined, undefined)
        /\ hist' = Append(hist, [price |-> price, volume |-> volume])
        /\ last' = [op |-> "updateVWAP"]
    /\ UNCHANGED <<shutdown, backtest, orders, strategy, risk, now, checkedDay, closes, steps>>

NextVWAP == VwapUpdate

SpecVWAP == InitVWAP /\ [][NextVWAP]_vars

(***************************************************************************)
(* Reference quantities for the VWAP claims, computed from the samples     *)
(* themselves                                                              *)
(***************************************************************************)
PVs(points) == [i \in 1..Len(points) |-> points[i].price * points[i].volume]
Vs(points) == [i \in 1..Len(points) |-> points[i].volume]

\* the (price, volume) content of a window of data points
Samples(points) ==
    [i \in 1..Len(points) |-> [price |-> points[i].price, volume |-> points[i].volume]]

\* the last n elements of s
LastN(s, n) == SubSeq(s, Len(s) - n + 1, Len(s))

\* volume-weighted average price of a sample sequence; none when the
\* samples carry no volume
WeightedAverage(points) ==
    IF SumSeq(Vs(points)) = 0 THEN null
    ELSE Some(Rat(SumSeq(PVs(points)), SumSeq(Vs(points))))

SameValue(a, b) ==
    IF a = null \/ b = null THEN a = b ELSE RatEq(Val(a), Val(b))

\* C1: after any sequence of updateVWAP calls from createVWAPState(period),
\* cumulativePriceVolume is the sum of price*volume and cumulativeVolume the
\* sum of volume over the retained dataPoints; and a step that evicts removes
\* the oldest sample and subtracts exactly that sample's contribution.
AccumulatorsMatchWindow ==
    /\ vwapState.cumulativePriceVolume = SumSeq(PVs(vwapState.dataPoints))
    /\ vwapState.cumulativeVolume = SumSeq(Vs(vwapState.dataPoints))

EvictionStep ==
    (Len(vwapState'.dataPoints) <= Len(vwapState.dataPoints)) =>
        LET oldest == Head(vwapState.dataPoints)
            newest == hist'[Len(hist')]
        IN  /\ Samples(vwapState'.dataPoints) =
                   Append(Tail(Samples(vwapState.dataPoints)), newest)
            /\ vwapState'.cumulativePriceVolume =
                   vwapState.cumulativePriceVolume
                   + newest.price * newest.volume - oldest.price * oldest.volume
            /\ vwapState'.cumulativeVolume =
                   vwapState.cumulativeVolume + newest.volume - oldest.volume

C1_AccumulatorsAndEviction ==
    [](AccumulatorsMatchWindow) /\ [][EvictionStep]_vars

C1_Witness ==
    /\ vwapState.period > 0
    /\ Len(hist) > vwapState.period
    /\ hist[1].volume > 0
    /\ vwapState.cumulativeVolume > 0

\* C2: for a window with period N > 0 the retained dataPoints are never more
\* than N, and after more than N updates they are exactly the last N samples
\* in insertion order and getVWAP is the volume-weighted average of exactly
\* those N samples.
C2_RollingWindow ==
    vwapState.period > 0 =>
        /\ Len(vwapState.dataPoints) <= vwapState.period
        /\ Len(hist) > vwapState.period =>
            /\ Samples(vwapState.dataPoints) = LastN(hist, vwapState.period)
            /\ SameValue(getVWAP(vwapState),
                         WeightedAverage(LastN(hist, vwapState.period)))

C2_Witness ==
    /\ vwapState.period > 1
    /\ Len(hist) > vwapState.period
    /\ getVWAP(vwapState) # null
    /\ ~SameValue(getVWAP(vwapState), WeightedAverage(hist))

\* C3: for a window with period = 0 no sample is ever evicted and, once the
\* total volume is positive, getVWAP is the sum of price*volume over all
\* updates divided by the sum of volume over all updates.
C3_SessionVWAP ==
    vwapState.period = 0 =>
        /\ Samples(vwapState.dataPoints) = hist
        /\ SumSeq(Vs(hist)) > 0 =>
            /\ getVWAP(vwapState) # null
            /\ RatEq(Val(getVWAP(vwapState)),
                     Rat(SumSeq(PVs(hist)), SumSeq(Vs(hist))))

C3_Witness ==
    /\ vwapState.period = 0
    /\ Len(hist) >= 3
    /\ hist[1].price # hist[3].price
    /\ hist[1].volume > 0 /\ hist[3].volume > 0

\* C4: getVWAP returns null exactly when cumulativeVolume is 0, or period > 0
\* and fewer than period samples have been ingested; in every other state it
\* returns cumulativePriceVolume / cumulativeVolume.
C4_NullExactlyWhenInsufficient ==
    LET insufficient ==
            \/ vwapState.cumulativeVolume = 0
            \/ vwapState.period > 0 /\ Len(hist) < vwapState.period
    IN  /\ (getVWAP(vwapState) = null) <=> insufficient
        /\ ~insufficient =>
               getVWAP(vwapState) =
                   Some(Rat(vwapState.cumulativePriceVolume,
                            vwapState.cumulativeVolume))

C4_Witness ==
    /\ vwapState.period > 0
    /\ Len(hist) = vwapState.period
    /\ getVWAP(vwapState) # null

(***************************************************************************)
(* The risk ledger driven through its exported operations, by a caller     *)
(* whose clock only moves forward and who, like the strategy engine,       *)
(* records a position only after canOpenPosition allowed it, closes only   *)
(* a recorded one, and applies the daily reset before either               *)
(* (backtest.ts:61, bot.ts:90).  The clock starts one tick before the      *)
(* epoch.                                                                  *)
(***************************************************************************)
MaxDay == 1
MaxCloses == 3

\* the clock moves on a grid of 2.5 minutes, or by a whole day
ClockTick == (5 * MsPerMinute) \div 2
RiskStartTime == 0 - ClockTick
ClockSteps == {ClockTick, MsPerDay}
PnLs == {-1, 0, 1}
RiskSymbols == {"AAPL", "MSFT", "SPY"}

DayIndex(t) == t \div MsPerDay

\* the clock values visited: from one tick before each midnight to the end
\* of a cooldown started at that midnight, up to day MaxDay
ClockInRange(t) ==
    /\ t <= MaxDay * MsPerDay + cooldown_minutes * MsPerMinute
    /\ \/ t % MsPerDay <= cooldown_minutes * MsPerMinute
       \/ t % MsPerDay >= MsPerDay - ClockTick

InitRisk ==
    /\ vwapState = idleVWAP
    /\ hist = <<>>
    /\ strategy = idleStrategy
    /\ now = RiskStartTime
    /\ risk = createRiskState(RiskStartTime)
    /\ checkedDay = DayIndex(RiskStartTime)
    /\ closes = 0
    /\ steps = 0
    /\ backtest = idleBacktest
    /\ orders = {}
    /\ shutdown = idleShutdown
    /\ last = [op |-> "createRiskState", reset |-> FALSE]

RiskAdvance ==
    /\ \E dt \in ClockSteps :
        /\ ClockInRange(now + dt)
        /\ now' = now + dt
    /\ last' = [op |-> "advance", reset |-> FALSE]
    /\ UNCHANGED <<shutdown, backtest, orders, vwapState, hist, strategy, risk, checkedDay, closes, steps>>

RiskRecordPosition ==
    /\ now < risk.dailyResetTime
    /\ canOpenPosition(risk, now)
    /\ \E symbol \in RiskSymbols \ DOMAIN risk.positions :
        risk' = recordPosition(risk, symbol, PriceLo, 1, now)
    /\ last' = [op |-> "recordPosition", reset |-> FALSE]
    /\ UNCHANGED <<shutdown, backtest, orders, vwapState, hist, strategy, now, checkedDay, closes, steps>>

RiskClosePosition ==
    /\ now < risk.dailyResetTime
    /\ closes < MaxCloses
    /\ closes' = closes + 1
    /\ \E symbol \in DOMAIN risk.positions, pnl \in PnLs :
        risk' = closePosition(risk, symbol, pnl, now)
    /\ last' = [op |-> "closePosition", reset |-> FALSE]
    /\ UNCHANGED <<shutdown, backtest, orders, vwapState, hist, strategy, now, checkedDay, steps>>

\* the replay driver's reset (backtest.ts:61)
RiskCheckDailyReset ==
    /\ risk' = checkDailyReset(risk, now)
    /\ checkedDay' = DayIndex(now)
    /\ last' = [op |-> "checkDailyReset", reset |-> now >= risk.dailyResetTime]
    /\ UNCHANGED <<shutdown, backtest, orders, vwapState, hist, strategy, now, closes, steps>>

\* the live handler's reset (bot.ts:90)
RiskCheckAndResetIfNeeded ==
    /\ risk' = checkAndResetIfNeeded(risk, now)
    /\ checkedDay' = DayIndex(now)
    /\ last' = [op |-> "checkAndResetIfNeeded", reset |-> now >= risk.dailyResetTime]
    /\ UNCHANGED <<shutdown, backtest, orders, vwapState, hist, strategy, now, closes, steps>>

NextRisk ==
    \/ RiskAdvance
    \/ RiskRecordPosition
    \/ RiskClosePosition
    \/ RiskCheckDailyReset
    \/ RiskCheckAndResetIfNeeded

SpecRisk == InitRisk /\ [][NextRisk]_vars

\* C7: canOpenPosition is false as soon as the number of open ledger
\* positions reaches max_positions, and from such a state it becomes true
\* again only by a closePosition that removes a position; neither the
\* passage of time nor a daily reset restores it.
AtPositionCap == MapSize(risk.positions) >= max_positions

CapReleasedOnlyByClose ==
    (AtPositionCap /\ canOpenPosition(risk', now')) =>
        /\ last'.op = "closePosition"
        /\ MapSize(risk'.positions) < MapSize(risk.positions)

C7_CapBlocksUntilClose ==
    [](AtPositionCap => ~canOpenPosition(risk, now))
    /\ [][CapReleasedOnlyByClose]_vars

C7_Witness ==
    /\ AtPositionCap
    /\ last.op = "checkDailyReset" /\ last.reset
    /\ now > risk.positions["AAPL"].entryTime
    /\ risk.tradesToday = 0 /\ ~InCooldown(risk, now)

\* C8: after a losing close stamped at lastLossTime, canOpenPosition(ledger,
\* now) is false for every now with now - lastLossTime below cooldown_minutes,
\* and the cooldown gate no longer blocks at or after lastLossTime +
\* cooldown_minutes; for every value of lastLossTime, timestamp 0 included.
C8_CooldownBlocks ==
    risk.lastLossTime # null =>
        IF now - Val(risk.lastLossTime) < cooldown_minutes * MsPerMinute
        THEN ~canOpenPosition(risk, now)
        ELSE ~InCooldown(risk, now)

\* C9: checkDailyReset(ledger, now) with now >= dailyResetTime returns a
\* ledger with dailyPnL, tradesToday and lossesToday zero and dailyResetTime
\* strictly greater than now, and with now < dailyResetTime returns the ledger
\* unchanged; over increasing timestamps the counters are reset at a check
\* exactly when a day boundary was crossed since the previous check.
CheckDailyResetStep ==
    last'.op = "checkDailyReset" =>
        /\ IF now >= risk.dailyResetTime
           THEN /\ risk'.dailyPnL = 0
                /\ risk'.tradesToday = 0
                /\ risk'.lossesToday = 0
                /\ risk'.dailyResetTime > now
           ELSE risk' = risk
        /\ (now >= risk.dailyResetTime) <=> (DayIndex(now) > checkedDay)

C10_ResetClearsCooldown ==
    (last.op \in {"checkDailyReset", "checkAndResetIfNeeded"} /\ last.reset) =>
        /\ risk.lastLossTime = null
        /\ ~InCooldown(risk, now)

(***************************************************************************)
(* The strategy engine driven by its two callers: handleMarketData         *)
(* (bot.ts:67-147), which serves every configured symbol from one ledger   *)
(* and reads the wall clock, and the bar loop of runBacktest               *)
(* (backtest.ts:58-158), which replays one symbol with the bar's           *)
(* timestamp.  Each step takes the symbol's VWAP state after the update    *)
(* from a small set of windows built with updateVWAP.                      *)
(***************************************************************************)
MaxSteps == 4

At(h, m) == h * MsPerHour + m * MsPerMinute

\* times of day visited by the engine clock: before the session, three
\* instants half a cooldown apart inside it, the end-of-day exit window,
\* and after the session
EngineOffsets ==
    {At(10, 0), At(15, 0), At(15, 0) + 2 * ClockTick, At(20, 55)}

\* the engine clock covers one day boundary
EngineDays == {0, 1}

EngineTimes == {d * MsPerDay + o : d \in EngineDays, o \in EngineOffsets}

EngineStartTime == At(10, 0)

baseConfig ==
    [size |-> 1,
     sizing_type |-> "fixed",
     max_risk_pct |-> null,
     stop_loss_pct |-> Rat(2, 100),
     take_profit_pct |-> Rat(5, 100),
     trailing_stop |-> FALSE,
     trailing_stop_pct |-> Rat(1, 100),
     max_hold_seconds |-> null,
     start_time |-> [h |-> 9, m |-> 30],
     end_time |-> [h |-> 16, m |-> 0],
     chop_threshold |-> 3,
     min_volume_mult |-> Rat(12, 10),
     min_atr_pct |-> null,
     rsi_period |-> null,
     rsi_oversold |-> null,
     rsi_overbought |-> null,
     entry_threshold |-> Rat(2, 100),
     require_confirmation |-> "true",
     max_slippage_pct |-> null]

\* confirmation candles on, off and left out of the configuration
\* (require_confirmation is optional, config.ts:31) with a fixed size, and
\* immediate entries sized by risk: one percent of the balance at stake per
\* trade
EngineConfigs ==
    {[baseConfig EXCEPT !.require_confirmation = rc] :
        rc \in {"true", "false", "undefined"}}
    \cup {[baseConfig EXCEPT !.require_confirmation = "false",
                             !.sizing_type = "risk_pct",
                             !.max_risk_pct = Some(Rat(1, 100))]}

\* the VWAP state after feeding the prices to updateVWAP, one share each
RECURSIVE Feed(_, _)
Feed(state, prices) ==
    IF prices = <<>> THEN state
    ELSE Feed(updateVWAP(state, Head(prices), 1, undefined, undefined),
              Tail(prices))

\* n prices ending at `end`, each `step` above its predecessor
Ramp(n, end, step) == [i \in 1..n |-> end - (n - i) * step]

WindowLen == atr_default_period + 1

\* a steady fall to 95 and a steady rise to 105 (oversold below, overbought
\* above the average), a flat market, a history too short for the
\* indicators, and a rise ended by a drop to 92 and a fall ended by a jump
\* to 108 (far from the average with a neutral RSI)
EngineWindows ==
    {Feed(createVWAPState(0), w) :
        w \in {Ramp(WindowLen, 95, -1), Ramp(WindowLen, 105, 1),
               Ramp(WindowLen, 100, 0), Ramp(3, 100, 0),
               Append(Ramp(WindowLen - 1, 110, 1), 92),
               Append(Ramp(WindowLen - 1, 90, -1), 108)}}

LastPrice(vs) == vs.dataPoints[Len(vs.dataPoints)].price

RsiPeriods == {OrElse(c.rsi_period, 14) : c \in EngineConfigs}

\* each window with what the callers and evaluateStrategy compute from it
\* alone: getVWAP, calculateATR, and calculateRSI for each configured period
EngineInputs ==
    {[vs |-> w,
      vwap |-> getVWAP(w),
      atr |-> calculateATR(w.dataPoints, atr_default_period),
      rsi |-> [p \in RsiPeriods |-> calculateRSI(PricesOf(w), p)]] :
        w \in EngineWindows}

Init ==
    /\ vwapState = idleVWAP
    /\ hist = <<>>
    /\ now = EngineStartTime
    /\ \E c \in EngineConfigs : strategy = createStrategyState(c)
    /\ risk = createRiskState(EngineStartTime)
    /\ checkedDay = DayIndex(EngineStartTime)
    /\ closes = 0
    /\ steps = 0
    /\ backtest = idleBacktest
    /\ orders = {}
    /\ shutdown = idleShutdown
    /\ last \in {[op |-> "createBot"]}
                \cup {[op |-> "runBacktest", symbol |-> s] : s \in Symbols}

\* what both callers do with the symbol's updated VWAP state in.vs once the
\* ledger has been through its daily reset (riskState): evaluateStrategy,
\* with the indicators of the window taken from EngineInputs
Decide(riskState, symbol, in, t) ==
    IF in.vwap = null THEN <<strategy, riskState>>
    ELSE evaluateWithIndicators(
             strategy, riskState, symbol, LastPrice(in.vs), Val(in.vwap), in.vs,
             in.atr, in.rsi[OrElse(strategy.config.rsi_period, 14)], t)

Closed(result, symbol) ==
    IF symbol \in DOMAIN strategy.positions
       /\ symbol \notin DOMAIN result[1].positions
    THEN 1 ELSE 0

\* the step reached checkEntrySignals for a flat instrument and was turned
\* away by its first test
Refused(riskState, symbol, t) ==
    /\ symbol \notin DOMAIN strategy.positions
    /\ ~EntryAllowed(riskState, t)

\* bot.ts:67-147
HandleMarketData ==
    /\ last.op \in {"createBot", "handleMarketData"}
    /\ steps < MaxSteps
    /\ \E symbol \in Symbols, t \in EngineTimes, in \in EngineInputs :
          /\ t >= now
          /\ \E result \in {Decide(checkAndResetIfNeeded(risk, t), symbol, in, t)} :
                /\ closes + Closed(result, symbol) <= MaxCloses
                /\ now' = t
                /\ strategy' = result[1]
                /\ risk' = IF in.vwap = null THEN risk ELSE result[2]
                /\ closes' = closes + Closed(result, symbol)
                /\ last' = [op |-> "handleMarketData",
                            refused |-> Refused(checkAndResetIfNeeded(risk, t),
                                                symbol, t)]
                /\ steps' = steps + 1
    /\ UNCHANGED <<shutdown, backtest, orders, vwapState, hist, checkedDay>>

\* backtest.ts:58-158
BacktestBar ==
    /\ last.op = "runBacktest"
    /\ steps < MaxSteps
    /\ \E t \in EngineTimes, in \in EngineInputs :
          /\ t >= now
          /\ \E result \in {Decide(checkDailyReset(risk, t), last.symbol, in, t)} :
                /\ closes + Closed(result, last.symbol) <= MaxCloses
                /\ now' = t
                /\ strategy' = result[1]
                /\ risk' = result[2]
                /\ closes' = closes + Closed(result, last.symbol)
                /\ last' = last
                /\ steps' = steps + 1
    /\ UNCHANGED <<shutdown, backtest, orders, vwapState, hist, checkedDay>>

Next == HandleMarketData \/ BacktestBar

Spec == Init /\ [][Next]_vars

(***************************************************************************)
(* Claims about the strategy engine and the shared ledger                  *)
(***************************************************************************)
\* the ledger quantity that matches a strategy position: its quantity, signed
\* positive for a long and negative for a short
SignedQuantity(position) ==
    IF position.side = "long" THEN position.quantity ELSE -position.quantity

\* C5: in every state reachable from createStrategyState/createRiskState by
\* evaluateStrategy calls, the instruments with a strategy position are
\* exactly the instruments in the ledger's open-position map, and each
\* ledger entry has the position's entry price and its quantity, positive
\* for a long and negative for a short.
C5_PositionsMatchLedger ==
    /\ DOMAIN strategy.positions = DOMAIN risk.positions
    /\ \A s \in DOMAIN strategy.positions :
          /\ strategy.positions[s].quantity >= 1
          /\ risk.positions[s].entryPrice = strategy.positions[s].entryPrice
          /\ risk.positions[s].quantity = SignedQuantity(strategy.positions[s])

\* a position has been closed, and a long and a short sized by risk are
\* open on two instruments, each with its ledger entry
C5_Witness ==
    /\ closes >= 1
    /\ \E s, u \in DOMAIN strategy.positions :
          /\ strategy.positions[s].side = "long"
          /\ strategy.positions[u].side = "short"
          /\ strategy.positions[u].quantity > 1
          /\ risk.positions[s].quantity > 1
          /\ risk.positions[u].quantity < -1

\* C6: with several instruments sharing one ledger and ticks processed one
\* at a time, the number of open positions never exceeds max_positions.
C6_OpenPositionsWithinCap ==
    /\ MapSize(strategy.positions) <= max_positions
    /\ MapSize(risk.positions) <= max_positions

\* the live bot holds max_positions positions and has just turned away a
\* tick for a flat instrument that no other gate would have stopped
C6_Witness ==
    /\ last.op = "handleMarketData"
    /\ last.refused
    /\ MapSize(strategy.positions) = max_positions
    /\ risk.tradesToday < max_trades_per_day
    /\ risk.lossesToday < max_losses_per_day
    /\ risk.lastLossTime = null
    /\ risk.dailyPnL > -max_daily_loss

\* C11: once closed trades bring dailyPnL to at most -max_daily_loss,
\* canOpenPosition stays false for the rest of that day (until the ledger's
\* next daily reset), whatever happens to other open positions in between.
\* Stated step by step: a step that is not a daily reset and starts at or
\* below the limit ends with canOpenPosition false.
DailyLossLatched ==
    (/\ risk.dailyPnL <= -max_daily_loss
     /\ risk'.dailyResetTime = risk.dailyResetTime)
        => ~canOpenPosition(risk', now')

C11_DailyLossBlocksRestOfDay == [][DailyLossLatched]_vars

\* C12: with several instruments sharing one ledger, tradesToday never
\* exceeds max_trades_per_day and lossesToday never exceeds
\* max_losses_per_day.
C12_CountersWithinLimits ==
    /\ risk.tradesToday <= max_trades_per_day
    /\ risk.lossesToday <= max_losses_per_day

(***************************************************************************)
(* The next observation: every evaluateStrategy call the running caller    *)
(* can make from the current state (the symbol, the time and the VWAP      *)
(* window are the inputs of HandleMarketData and BacktestBar), and its     *)
(* result.                                                                 *)
(***************************************************************************)
TickSymbols == IF last.op = "runBacktest" THEN {last.symbol} ELSE Symbols

\* the ledger after the caller's daily reset at time t
TickRisk(t) ==
    IF last.op = "runBacktest" THEN checkDailyReset(risk, t)
    ELSE checkAndResetIfNeeded(risk, t)

ObservationsAt(times) ==
    {[symbol |-> symbol, t |-> t, in |-> in] :
        symbol \in TickSymbols,
        t \in {u \in times : u >= now},
        in \in {i \in EngineInputs : i.vwap # null}}

NextObservations == ObservationsAt(EngineTimes)

Evaluated(o) == Decide(TickRisk(o.t), o.symbol, o.in, o.t)

PriceBelowVWAP(o) == IntLt(LastPrice(o.in.vs), Val(o.in.vwap))
PriceAboveVWAP(o) == IntGt(LastPrice(o.in.vs), Val(o.in.vwap))

\* the instrument of o is flat with a pending signal of the given type
PendingFor(o, type) ==
    /\ o.symbol \notin DOMAIN strategy.positions
    /\ o.symbol \in DOMAIN strategy.pendingSignals
    /\ strategy.pendingSignals[o.symbol].type = type

\* C13: with confirmation enabled, when a pending long exists for a flat
\* instrument and the next observation's price is below VWAP, the pending
\* signal is discarded and no long position is entered (symmetrically for a
\* pending short and a price above VWAP).
C13_FailedConfirmationDiscards ==
    \A o \in NextObservations :
        (/\ strategy.config.require_confirmation = "true"
         /\ \/ PendingFor(o, "potential_long") /\ PriceBelowVWAP(o)
            \/ PendingFor(o, "potential_short") /\ PriceAboveVWAP(o))
            => /\ o.symbol \notin DOMAIN Evaluated(o)[1].pendingSignals
               /\ o.symbol \notin DOMAIN Evaluated(o)[1].positions

\* C14: with confirmation enabled, when a pending long exists for a flat
\* instrument and the next observation's price is at or above VWAP, a long
\* position is entered on that observation at that observation's price and
\* the pending signal is removed.
C14_ConfirmedLongEnters ==
    \A o \in NextObservations :
        (/\ strategy.config.require_confirmation = "true"
         /\ PendingFor(o, "potential_long")
         /\ ~PriceBelowVWAP(o))
            => /\ o.symbol \notin DOMAIN Evaluated(o)[1].pendingSignals
               /\ o.symbol \in DOMAIN Evaluated(o)[1].positions
               /\ Evaluated(o)[1].positions[o.symbol].side = "long"
               /\ Evaluated(o)[1].positions[o.symbol].entryPrice
                     = LastPrice(o.in.vs)

\* C15: a pending signal is resolved (position entered or signal discarded)
\* by the very next observation evaluated for its instrument.
C15_PendingResolvedByNextObservation ==
    \A o \in NextObservations :
        o.symbol \in DOMAIN strategy.pendingSignals
            => o.symbol \notin DOMAIN Evaluated(o)[1].pendingSignals

\* C16: whenever require_confirmation is not enabled in the configuration,
\* the pendingSignals map stays empty.
C16_NoPendingWithoutConfirmation ==
    strategy.config.require_confirmation # "true"
        => strategy.pendingSignals = <<>>

(***************************************************************************)
(* Position management under the replay driver with a trailing stop and    *)
(* a hold ceiling configured: one instrument, immediate entries.           *)
(***************************************************************************)
max_hold_seconds == 300

ManageConfigs ==
    {[baseConfig EXCEPT !.require_confirmation = "false",
                        !.trailing_stop = TRUE,
                        !.max_hold_seconds = mh] :
        mh \in {null, Some(max_hold_seconds)}}

InitManage ==
    /\ vwapState = idleVWAP
    /\ hist = <<>>
    /\ now = EngineStartTime
    /\ \E c \in ManageConfigs : strategy = createStrategyState(c)
    /\ risk = createRiskState(EngineStartTime)
    /\ checkedDay = DayIndex(EngineStartTime)
    /\ closes = 0
    /\ steps = 0
    /\ backtest = idleBacktest
    /\ orders = {}
    /\ shutdown = idleShutdown
    /\ last = [op |-> "runBacktest", symbol |-> "SPY"]

NextManage == BacktestBar

SpecManage == InitManage /\ [][NextManage]_vars

\* the exit conditions of the specification's priority list, each on its own
TimeStopHolds(config, position, t) ==
    /\ Truthy(config.max_hold_seconds)
    /\ t - position.entryTime >= Val(config.max_hold_seconds) * MsPerSecond

StopLossHolds(position, price) ==
    IF position.side = "long" THEN IntLe(price, position.stopLoss)
    ELSE IntGe(price, position.stopLoss)

TakeProfitHolds(position, price) ==
    IF position.side = "long" THEN IntGe(price, position.takeProfit)
    ELSE IntLe(price, position.takeProfit)

\* the trailing level is touched after it has been ratcheted to the price
TrailingStopHolds(config, position, price) ==
    /\ TrailingActive(config, position)
    /\ IF position.side = "long"
       THEN IntLe(price, Val(RatchetTrailing(config, position, price).trailingStop))
       ELSE IntGe(price, Val(RatchetTrailing(config, position, price).trailingStop))

FirstSatisfied(config, position, price, t) ==
    IF TimeStopHolds(config, position, t) THEN "TIME_STOP"
    ELSE IF StopLossHolds(position, price) THEN "STOP_LOSS"
    ELSE IF TakeProfitHolds(position, price) THEN "TAKE_PROFIT"
    ELSE IF TrailingStopHolds(config, position, price) THEN "TRAILING_STOP"
    ELSE "NONE"

\* o reaches managePosition: the instrument has a position, the indicators
\* are available and the time is outside the end-of-day test
Managed(o) ==
    /\ o.symbol \in DOMAIN strategy.positions
    /\ o.in.atr # null
    /\ o.in.rsi[OrElse(strategy.config.rsi_period, 14)] # null
    /\ ~(getUTCHours(o.t) >= 20 /\ getUTCMinutes(o.t) >= 55)

\* C17: when a position exists and more than one exit condition holds on the
\* same observation, the exit reason is the first satisfied one in the order
\* TIME_STOP, STOP_LOSS, TAKE_PROFIT, TRAILING_STOP, and the position is
\* closed exactly once: the position and its ledger entry are removed and
\* tradesToday grows by one.  When none holds the position stays.
C17_FirstExitConditionWins ==
    \A o \in NextObservations :
        Managed(o) =>
            LET position == strategy.positions[o.symbol]
                price == LastPrice(o.in.vs)
                expected == FirstSatisfied(strategy.config, position, price, o.t)
                result == Evaluated(o)
            IN  /\ exitReason(strategy.config, position, price, o.t) = expected
                /\ IF expected # "NONE"
                   THEN /\ o.symbol \notin DOMAIN result[1].positions
                        /\ o.symbol \notin DOMAIN result[2].positions
                        /\ result[2].tradesToday = TickRisk(o.t).tradesToday + 1
                        /\ result[2].dailyPnL
                              = TickRisk(o.t).dailyPnL + calculatePnL(position, price)
                   ELSE /\ o.symbol \in DOMAIN result[1].positions
                        /\ o.symbol \in DOMAIN result[2].positions
                        /\ result[2].tradesToday = TickRisk(o.t).tradesToday

\* a position was closed earlier, and the next observation for the open
\* position can satisfy the time stop together with the stop loss and the
\* trailing stop, or together with the take profit
C17_Witness ==
    /\ closes >= 1
    /\ \E o, q \in NextObservations :
          /\ Managed(o) /\ Managed(q) /\ o.symbol = q.symbol /\ o.t = q.t
          /\ TimeStopHolds(strategy.config, strategy.positions[o.symbol], o.t)
          /\ StopLossHolds(strategy.positions[o.symbol], LastPrice(o.in.vs))
          /\ TrailingStopHolds(strategy.config, strategy.positions[o.symbol],
                               LastPrice(o.in.vs))
          /\ TakeProfitHolds(strategy.positions[q.symbol], LastPrice(q.in.vs))

(***************************************************************************)
(* End-of-session exit and the risk gate                                   *)
(***************************************************************************)
\* times of day probed for the end-of-session exit: the start of the window,
\* later in the same hour, and in the following hours
ForceExitOffsets == {At(20, 55), At(20, 59), At(21, 30), At(23, 55)}

ForceExitTimes == {d * MsPerDay + o : d \in EngineDays, o \in ForceExitOffsets}

\* C18: whenever a position exists and an observation arrives at any time
\* from 20:55 UTC to the end of the UTC day, evaluateStrategy closes the
\* position in that evaluation.  Stated for observations whose window makes
\* ATR and RSI available.
C18_ForceExitFrom2055 ==
    \A o \in ObservationsAt(ForceExitTimes) :
        (/\ o.symbol \in DOMAIN strategy.positions
         /\ o.in.atr # null
         /\ o.in.rsi[OrElse(strategy.config.rsi_period, 14)] # null
         /\ o.t % MsPerDay >= At(20, 55))
            => /\ o.symbol \notin DOMAIN Evaluated(o)[1].positions
               /\ o.symbol \notin DOMAIN Evaluated(o)[2].positions

\* C19: no position is opened by an evaluation in which canOpenPosition is
\* false for the ledger the evaluation is given, whether the entry would
\* come from a fresh setup or from a confirmed pending signal.
C19_NoEntryWhenGateClosed ==
    \A o \in NextObservations :
        ~canOpenPosition(TickRisk(o.t), o.t)
            => /\ DOMAIN Evaluated(o)[1].positions \subseteq DOMAIN strategy.positions
               /\ DOMAIN Evaluated(o)[2].positions \subseteq DOMAIN risk.positions

\* the gate is closed now, at an instant inside the session, for an
\* instrument whose pending long the next observation can confirm
C19_Witness ==
    /\ ~canOpenPosition(risk, now)
    /\ ~OutsideSchedule(strategy.config, now)
    /\ \E o \in NextObservations :
          /\ o.t = now
          /\ PendingFor(o, "potential_long")
          /\ ~PriceBelowVWAP(o)
          /\ o.in.atr # null

\* C20: a step that closes a position removes exactly that instrument's
\* ledger entry and leaves the other entries alone, adds the same pnl to
\* dailyPnL and to currentBalance, raises tradesToday by exactly 1, and
\* raises lossesToday by 1 and sets lastLossTime to now if and only if
\* pnl < 0; a close with pnl = 0 leaves lossesToday and lastLossTime as
\* they were.
C20_ClosePositionBookkeeping ==
    [][(last'.op = "closePosition" /\ closes' = closes + 1) =>
        LET pnl == risk'.dailyPnL - risk.dailyPnL
        IN  /\ \E symbol \in DOMAIN risk.positions :
                /\ DOMAIN risk'.positions = DOMAIN risk.positions \ {symbol}
                /\ \A other \in DOMAIN risk'.positions :
                      risk'.positions[other] = risk.positions[other]
            /\ risk'.currentBalance = risk.currentBalance + pnl
            /\ risk'.tradesToday = risk.tradesToday + 1
            /\ pnl < 0 => /\ risk'.lossesToday = risk.lossesToday + 1
                          /\ risk'.lastLossTime = Some(now)
            /\ pnl >= 0 => /\ risk'.lossesToday = risk.lossesToday
                           /\ risk'.lastLossTime = risk.lastLossTime
            /\ risk'.dailyResetTime = risk.dailyResetTime]_vars

\* a break-even close that followed a losing close made at an earlier
\* instant of the same day: the loss count and the loss time are the
\* earlier close's
C20_Witness ==
    /\ last.op = "closePosition"
    /\ risk.tradesToday = 2 /\ risk.lossesToday = 1
    /\ risk.dailyPnL = -1
    /\ risk.currentBalance = initial_capital - 1
    /\ risk.lastLossTime # null /\ Val(risk.lastLossTime) < now
    /\ risk.positions # <<>>

\* C21: a step that records an opened position adds exactly one
\* instrument's entry to the ledger, stamped with the current time, and
\* leaves dailyPnL, currentBalance, tradesToday, lossesToday, lastLossTime,
\* dailyResetTime and every other instrument's entry unchanged.
C21_RecordPositionFrame ==
    [][last'.op = "recordPosition" =>
        /\ \E symbol \in RiskSymbols :
              /\ DOMAIN risk'.positions = DOMAIN risk.positions \cup {symbol}
              /\ risk'.positions[symbol].symbol = symbol
              /\ risk'.positions[symbol].entryTime = now
              /\ \A other \in DOMAIN risk.positions \ {symbol} :
                    risk'.positions[other] = risk.positions[other]
        /\ risk'.dailyPnL = risk.dailyPnL
        /\ risk'.currentBalance = risk.currentBalance
        /\ risk'.tradesToday = risk.tradesToday
        /\ risk'.lossesToday = risk.lossesToday
        /\ risk'.lastLossTime = risk.lastLossTime
        /\ risk'.dailyResetTime = risk.dailyResetTime]_vars

\* a position recorded next to one already held, on a ledger whose
\* counters, balance and loss time are no longer the initial ones
C21_Witness ==
    /\ last.op = "recordPosition"
    /\ MapSize(risk.positions) = 2
    /\ \E symbol \in DOMAIN risk.positions :
          risk.positions[symbol].entryTime = now
    /\ \E symbol \in DOMAIN risk.positions :
          risk.positions[symbol].entryTime < now
    /\ risk.tradesToday = 1 /\ risk.lossesToday = 1
    /\ risk.dailyPnL = -1 /\ risk.currentBalance = initial_capital - 1
    /\ risk.lastLossTime # null

(***************************************************************************)
(* The replay driver over bars that move a held position's price inside    *)
(* the band between its stop and its target, with trailing stops on.       *)
(***************************************************************************)

\* trailing distances of one and two percent; entries are immediate
TrailConfigs ==
    {[baseConfig EXCEPT !.require_confirmation = "false",
                        !.trailing_stop = TRUE,
                        !.trailing_stop_pct = pct] :
        pct \in {Rat(1, 100), Rat(2, 100)}}

\* the fall to 95 and the rise to 105 that open a long and a short, and
\* flat windows at prices between the stop and the target of each
TrailWindows ==
    {Feed(createVWAPState(0), w) :
        w \in {Ramp(WindowLen, 95, -1), Ramp(WindowLen, 105, 1),
               Ramp(WindowLen, 98, 0), Ramp(WindowLen, 99, 0),
               Ramp(WindowLen, 102, 0), Ramp(WindowLen, 103, 0)}}

TrailInputs ==
    {[vs |-> w,
      vwap |-> getVWAP(w),
      atr |-> calculateATR(w.dataPoints, atr_default_period),
      rsi |-> [p \in RsiPeriods |-> calculateRSI(PricesOf(w), p)]] :
        w \in TrailWindows}

InitTrail ==
    /\ vwapState = idleVWAP
    /\ hist = <<>>
    /\ now = EngineStartTime
    /\ \E c \in TrailConfigs : strategy = createStrategyState(c)
    /\ risk = createRiskState(EngineStartTime)
    /\ checkedDay = DayIndex(EngineStartTime)
    /\ closes = 0
    /\ steps = 0
    /\ backtest = idleBacktest
    /\ orders = {}
    /\ shutdown = idleShutdown
    /\ last = [op |-> "runBacktest", symbol |-> "SPY", price |-> 0]

\* backtest.ts:58-158; last remembers the bar's close price
TrailBar ==
    /\ steps < MaxSteps
    /\ \E t \in EngineTimes, in \in TrailInputs :
          /\ t >= now
          /\ \E result \in {Decide(checkDailyReset(risk, t), last.symbol, in, t)} :
                /\ closes + Closed(result, last.symbol) <= MaxCloses
                /\ now' = t
                /\ strategy' = result[1]
                /\ risk' = result[2]
                /\ closes' = closes + Closed(result, last.symbol)
                /\ last' = [last EXCEPT !.price = LastPrice(in.vs)]
                /\ steps' = steps + 1
    /\ UNCHANGED <<shutdown, backtest, orders, vwapState, hist, checkedDay>>

NextTrail == TrailBar

SpecTrail == InitTrail /\ [][NextTrail]_vars

\* C22: across every observation on which a position with a trailing stop
\* stays open, its trailingStop does not decrease if it is long and does
\* not increase if it is short, and its stopLoss, takeProfit, entryPrice
\* and quantity are the same before and after.
C22_TrailingOnlyInFavour ==
    [][\A symbol \in DOMAIN strategy.positions \cap DOMAIN strategy'.positions :
          LET before == strategy.positions[symbol]
              after == strategy'.positions[symbol]
          IN  /\ after.stopLoss = before.stopLoss
              /\ after.takeProfit = before.takeProfit
              /\ after.entryPrice = before.entryPrice
              /\ after.quantity = before.quantity
              /\ after.side = before.side
              /\ before.trailingStop # undefined =>
                    /\ after.trailingStop # undefined
                    /\ before.side = "long" =>
                          ~RatLt(Val(after.trailingStop), Val(before.trailingStop))
                    /\ before.side = "short" =>
                          ~RatLt(Val(before.trailingStop), Val(after.trailingStop))]_vars

\* a held position whose trailing level has already moved from its initial
\* value and stayed where it was on a bar whose price went back against
\* the position without touching the level
TrailHeldBack(side) ==
    /\ "SPY" \in DOMAIN strategy.positions
    /\ LET position == strategy.positions["SPY"]
           pct == strategy.config.trailing_stop_pct
       IN  /\ position.side = side
           /\ position.trailingStop # undefined
           /\ IF side = "long"
              THEN /\ RatLt(ScaleDown(position.entryPrice, pct),
                            Val(position.trailingStop))
                   /\ RatLt(ScaleDown(last.price, pct),
                            Val(position.trailingStop))
              ELSE /\ RatLt(Val(position.trailingStop),
                            ScaleUp(position.entryPrice, pct))
                   /\ RatLt(Val(position.trailingStop),
                            ScaleUp(last.price, pct))

C22_Witness == TrailHeldBack("short")

C22_WitnessLong == TrailHeldBack("long")

(***************************************************************************)
(* runBacktest bar by bar (backtest.ts:40-178), with the VWAP state built  *)
(* from the bars themselves and the indicators computed from it by         *)
(* evaluateStrategy.  last.bars is the `bars` argument, steps the loop     *)
(* index, hist the bars consumed so far.  The Math.random() tests that     *)
(* guard occasional log lines are inputs of every evaluation.              *)
(***************************************************************************)

\* one evaluation's Math.random() tests, TRUE when the number drawn is
\* below the threshold: index.ts:292, part_001:418, 474, 488
Draws == [cooldown : BOOLEAN, eval : BOOLEAN, volume : BOOLEAN, atr : BOOLEAN]

noDraw == [cooldown |-> FALSE, eval |-> FALSE, volume |-> FALSE, atr |-> FALSE]

\* canOpenPosition with its sampled log line: the decision and the sampled
\* lines written
canOpenPositionSampled(state, currentTime, draw) ==
    IF MapSize(state.positions) >= max_positions
    THEN [result |-> FALSE, logged |-> {}]
    ELSE IF state.tradesToday >= max_trades_per_day
    THEN [result |-> FALSE, logged |-> {}]
    ELSE IF state.lossesToday >= max_losses_per_day
    THEN [result |-> FALSE, logged |-> {}]
    ELSE IF InCooldown(state, currentTime)
    THEN [result |-> FALSE,
          logged |-> IF draw.cooldown THEN {"in cooldown"} ELSE {}]
    ELSE IF state.dailyPnL <= -max_daily_loss
    THEN [result |-> FALSE, logged |-> {}]
    ELSE [result |-> TRUE, logged |-> {}]

\* an evaluation that is dropped whenever its debug line is written
checkEntrySignalsSampled_SkipWhenLogged(strategyState, riskState, symbol, currentPrice, vwap, atr, rsi, vwapSt, currentTime, draw) ==
    LET r == checkEntrySignals(strategyState, riskState, symbol, currentPrice,
                               vwap, atr, rsi, vwapSt, currentTime)
    IN  IF draw.eval /\ canOpenPosition(riskState, currentTime)
        THEN <<strategyState, riskState, {"Eval"}>>
        ELSE <<r[1], r[2], {}>>

\* checkEntrySignals with its sampled log lines (part_001:413-494): the
\* returned pair followed by the sampled lines written
checkEntrySignalsSampled(strategyState, riskState, symbol, currentPrice, vwap, atr, rsi, vwapSt, currentTime, draw) ==
    LET config == strategyState.config
        gate == canOpenPositionSampled(riskState, currentTime, draw)
        evalLine == IF draw.eval THEN {"Eval"} ELSE {}
        r == checkEntrySignals(strategyState, riskState, symbol, currentPrice,
                               vwap, atr, rsi, vwapSt, currentTime)
    IN  IF ~gate.result THEN <<strategyState, riskState, gate.logged>>
        ELSE IF OutsideSchedule(config, currentTime)
        THEN <<strategyState, riskState, evalLine>>
        ELSE IF LowVolume(config, vwapSt)
        THEN <<strategyState, riskState,
               evalLine \cup (IF draw.volume THEN {"Low volume"} ELSE {})>>
        ELSE IF LowVolatility(config, atr, currentPrice)
        THEN <<strategyState, riskState,
               evalLine \cup (IF draw.atr THEN {"Low Volatility"} ELSE {})>>
        ELSE <<r[1], r[2], evalLine>>

\* evaluateStrategy as runBacktest calls it (vwapState always passed), with
\* the sampled lines written
evaluateStrategySampled(strategyState, riskState, symbol, currentPrice, vwap, vwapSt, currentTime, draw) ==
    LET atr == calculateATR(vwapSt.dataPoints, atr_default_period)
        rsi == calculateRSI(PricesOf(vwapSt),
                            OrElse(strategyState.config.rsi_period, 14))
        e == evaluateWithIndicators(strategyState, riskState, symbol,
                                    currentPrice, vwap, vwapSt, atr, rsi,
                                    currentTime)
    IN  IF rsi = null \/ atr = null THEN <<strategyState, riskState, {}>>
        ELSE IF symbol \in DOMAIN strategyState.positions
        THEN <<e[1], e[2], {}>>
        ELSE checkEntrySignalsSampled(strategyState, riskState, symbol,
                                      currentPrice, vwap, Val(atr), Val(rsi),
                                      vwapSt, currentTime, draw)

\* config.strategy.vwap.period of the replayed configuration: session VWAP
vwap_period == 0

\* one iteration of the loop of runBacktest on bars[i] (1-based); run holds
\* vwapState, strategyState, riskState and the locals trades, peakPnL and
\* maxDrawdown
runBacktestBar(run, symbol, bars, i, draw) ==
    LET bar == bars[i]
        timestamp == bar.Timestamp
        riskState == checkDailyReset(run.riskState, timestamp)
        price == bar.ClosePrice
        newDay == i > 1 /\ DayIndex(bars[i - 1].Timestamp) # DayIndex(timestamp)
        vs0 == IF newDay /\ run.vwapState.period = 0
               THEN createVWAPState(0) ELSE run.vwapState
        vs == updateVWAP(vs0, price, bar.Volume, Some(bar.HighPrice),
                         Some(bar.LowPrice))
        currentVWAP == getVWAP(vs)
    IN  IF currentVWAP = null
        THEN [run EXCEPT !.vwapState = vs, !.riskState = riskState]
        ELSE LET e == evaluateStrategySampled(run.strategyState, riskState,
                                              symbol, price, Val(currentVWAP),
                                              vs, timestamp, draw)
                 hadPosition == symbol \in DOMAIN run.strategyState.positions
                 hasPosition == symbol \in DOMAIN e[1].positions
                 had == run.strategyState.positions[symbol]
                 trade == [symbol |-> symbol,
                           side |-> had.side,
                           entryPrice |-> had.entryPrice,
                           exitPrice |-> price,
                           entryTime |-> had.entryTime,
                           exitTime |-> timestamp,
                           quantity |-> had.quantity,
                           pnl |-> e[2].dailyPnL - riskState.dailyPnL,
                           reason |-> "Backtest Exit"]
                 peakPnL == Max(run.backtest.peakPnL, e[2].dailyPnL)
             IN  [vwapState |-> vs,
                  strategyState |-> e[1],
                  riskState |-> e[2],
                  backtest |->
                     [trades |-> IF hadPosition /\ ~hasPosition
                                 THEN Append(run.backtest.trades, trade)
                                 ELSE run.backtest.trades,
                      peakPnL |-> peakPnL,
                      maxDrawdown |-> Max(run.backtest.maxDrawdown,
                                          peakPnL - e[2].dailyPnL),
                      logged |-> run.backtest.logged \cup e[3]]]

\* the BacktestResult returned after the loop (backtest.ts:163-177)
BacktestResult(run) ==
    LET trades == run.backtest.trades
        winningTrades == Cardinality({k \in DOMAIN trades : trades[k].pnl > 0})
        losingTrades == Cardinality({k \in DOMAIN trades : trades[k].pnl <= 0})
    IN  [totalTrades |-> Len(trades),
         winningTrades |-> winningTrades,
         losingTrades |-> losingTrades,
         totalPnL |-> run.riskState.dailyPnL,
         winRate |-> IF Len(trades) > 0
                     THEN Rat(winningTrades * 100, Len(trades)) ELSE Rat(0, 1),
         maxDrawdown |-> run.backtest.maxDrawdown,
         trades |-> trades]

\* number of bars replayed after the scripted ones
MaxTail == 2

ReplayStart == At(15, 0)

\* bars one minute apart from `start` with the given close prices, flat
\* candles of volume 1000
BarsFrom(start, prices) ==
    [k \in 1..Len(prices) |->
        [Timestamp |-> start + (k - 1) * MsPerMinute,
         ClosePrice |-> prices[k], HighPrice |-> prices[k],
         LowPrice |-> prices[k], Volume |-> 1000]]

\* the five-bar scenario; a fall to 95 and a rise to 105 over the shortest
\* history with indicators, and a fall to 95 over more than twenty bars
ReplayTapes ==
    {BarsFrom(ReplayStart, w) :
        w \in {<<100, 100, 100, 95, 95>>, Ramp(WindowLen, 95, -1),
               Ramp(WindowLen, 105, 1), Ramp(21, 95, -1)}}

\* bars that may follow the scripted ones: one minute or one day after the
\* last bar, at the long's stop, its entry price, its target, or the
\* short's stop
TailPrices == {93, 95, 100, 108}
TailGaps == {MsPerMinute, MsPerDay}

\* the bars runBacktest may find at index steps + 1
NextBars ==
    IF steps < Len(last.bars) THEN {last.bars[steps + 1]}
    ELSE IF steps < Len(last.bars) + MaxTail
    THEN {[Timestamp |-> now + g, ClosePrice |-> p, HighPrice |-> p,
           LowPrice |-> p, Volume |-> 1000] :
             p \in TailPrices, g \in TailGaps}
    ELSE {}

\* immediate entries with the default RSI boundaries, with an RSI boundary
\* every value passes, with a minimum ATR of five percent of the price, and
\* with an RSI over five bars
ReplayConfigs ==
    {[baseConfig EXCEPT !.require_confirmation = "false"],
     [baseConfig EXCEPT !.require_confirmation = "false",
                        !.rsi_oversold = Some(101)],
     [baseConfig EXCEPT !.require_confirmation = "false",
                        !.min_atr_pct = Some(Rat(5, 100))],
     [baseConfig EXCEPT !.require_confirmation = "false",
                        !.rsi_period = Some(5)]}

InitReplay ==
    /\ \E bars \in ReplayTapes :
          /\ last = [op |-> "runBacktest", symbol |-> "SPY", bars |-> bars]
          /\ now = bars[1].Timestamp
          /\ risk = createRiskState(bars[1].Timestamp)
          /\ checkedDay = DayIndex(bars[1].Timestamp)
    /\ \E c \in ReplayConfigs : strategy = createStrategyState(c)
    /\ vwapState = createVWAPState(vwap_period)
    /\ hist = <<>>
    /\ closes = 0
    /\ steps = 0
    /\ backtest = idleBacktest
    /\ orders = {}
    /\ shutdown = idleShutdown

Run ==
    [vwapState |-> vwapState, strategyState |-> strategy, riskState |-> risk,
     backtest |-> backtest]

\* the step of the run on bar, the next bar after those consumed
StepOn(bar, draw) ==
    runBacktestBar(Run, last.symbol, Append(hist, bar), Len(hist) + 1, draw)

ReplayBar ==
    /\ \E bar \in NextBars, draw \in Draws :
        \E run \in {StepOn(bar, draw)} :
          /\ vwapState' = run.vwapState
          /\ strategy' = run.strategyState
          /\ risk' = run.riskState
          /\ backtest' = run.backtest
          /\ closes' = closes + Len(run.backtest.trades) - Len(backtest.trades)
          /\ hist' = Append(hist, bar)
          /\ now' = bar.Timestamp
          /\ checkedDay' = DayIndex(bar.Timestamp)
    /\ steps' = steps + 1
    /\ last' = last
    /\ UNCHANGED <<shutdown, orders>>

NextReplay == ReplayBar

SpecReplay == InitReplay /\ [][NextReplay]_vars

\* what a run has produced apart from its log: the states carried to the
\* next bar and the result it would return
Outcome(run) ==
    [vwapState |-> run.vwapState,
     strategyState |-> run.strategyState,
     riskState |-> run.riskState,
     peakPnL |-> run.backtest.peakPnL,
     result |-> BacktestResult(run)]

\* C23: from the same state and on the same bar, every outcome of the
\* Math.random() tests leads runBacktest to the same strategy state, ledger,
\* trade list and summary statistics, and canOpenPosition to the same
\* answer; two runs over the same bars and configuration therefore agree
\* bar after bar.
C23_ReplayDeterministic ==
    \A bar \in NextBars, draw \in Draws :
        /\ Outcome(StepOn(bar, draw)) = Outcome(StepOn(bar, noDraw))
        /\ canOpenPositionSampled(checkDailyReset(risk, bar.Timestamp),
                                  bar.Timestamp, draw).result
              = canOpenPositionSampled(checkDailyReset(risk, bar.Timestamp),
                                       bar.Timestamp, noDraw).result

\* a run that has written the sampled line of canOpenPosition and the
\* sampled line of checkEntrySignals and has closed a trade
C23_Witness ==
    /\ {"in cooldown", "Eval"} \subseteq backtest.logged
    /\ Len(backtest.trades) >= 1
    /\ NextBars # {}

C23_WitnessFilters ==
    \/ "Low volume" \in backtest.logged
    \/ "Low Volatility" \in backtest.logged

\* the five bars of the end-to-end scenario have been replayed up to the
\* first 95 bar or beyond, under a configuration whose RSI boundary lets
\* every RSI value pass
ScenarioReplayed ==
    /\ last.bars = BarsFrom(ReplayStart, <<100, 100, 100, 95, 95>>)
    /\ steps \in {4, 5}
    /\ strategy.config.require_confirmation = "false"
    /\ strategy.config.rsi_oversold = Some(101)

\* C24: once bars closing at 100, 100, 100 and 95 have been replayed
\* (volume 1000 each, VWAP period 0, entry_threshold 0.02, no confirmation,
\* permissive RSI boundary), the instrument holds a long position entered
\* on the first 95 bar at price 95.
C24_ScenarioOpensLong ==
    ScenarioReplayed =>
        /\ "SPY" \in DOMAIN strategy.positions
        /\ strategy.positions["SPY"].side = "long"
        /\ strategy.positions["SPY"].entryPrice = 95
        /\ strategy.positions["SPY"].entryTime = last.bars[4].Timestamp

\* the largest fall of the cumulative realized P&L below its running peak
\* over trades[k..], entered with the sum cum of the earlier trades' pnl
\* and the peak reached so far
RECURSIVE DrawdownFrom(_, _, _, _)
DrawdownFrom(trades, k, cum, peak) ==
    IF k > Len(trades) THEN 0
    ELSE LET cum1 == cum + trades[k].pnl
             peak1 == Max(peak, cum1)
         IN  Max(peak1 - cum1, DrawdownFrom(trades, k + 1, cum1, peak1))

\* C25: the maxDrawdown runBacktest would report equals the maximum over
\* the run so far, days already replayed included, of the running peak of
\* the cumulative realized P&L minus the cumulative realized P&L, the
\* cumulative realized P&L being the sum of the pnl of the trades closed.
C25_MaxDrawdownOfCumulativePnL ==
    BacktestResult(Run).maxDrawdown = DrawdownFrom(backtest.trades, 1, 0, 0)

(***************************************************************************)
(* The live handler with its gateway calls (bot.ts:67-147).  submitOrder   *)
(* and closePosition of alpaca-client.ts return promises the handler does  *)
(* not await; each settles later, and a rejection runs the .catch handler. *)
(***************************************************************************)

\* immediate entries and confirmation candles; max_slippage_pct left out
\* and set to 0.15 percent
LiveConfigs ==
    {[baseConfig EXCEPT !.require_confirmation = rc,
                        !.max_slippage_pct = slippage] :
        rc \in {"false", "true"}, slippage \in {null, Some(Rat(15, 10000))}}

InitLive ==
    /\ vwapState = idleVWAP
    /\ hist = <<>>
    /\ now = EngineStartTime
    /\ \E c \in LiveConfigs : strategy = createStrategyState(c)
    /\ risk = createRiskState(EngineStartTime)
    /\ checkedDay = DayIndex(EngineStartTime)
    /\ closes = 0
    /\ steps = 0
    /\ backtest = idleBacktest
    /\ orders = {}
    /\ shutdown = idleShutdown
    /\ last = [op |-> "createBot"]

\* max_slippage_pct || 0.001 (bot.ts:108)
slippageOf(config) ==
    IF config.max_slippage_pct # null /\ Val(config.max_slippage_pct).num # 0
    THEN Val(config.max_slippage_pct)
    ELSE Rat(1, 1000)

\* price * (1 + slippage) for a long, price * (1 - slippage) for a short
limitPrice(config, side, price) ==
    IF side = "long" THEN ScaleUp(price, slippageOf(config))
    ELSE ScaleDown(price, slippageOf(config))

\* Number(value.toFixed(2)): the value in whole cents.  A value half way
\* between two cents is not a binary fraction, and the double that stands
\* for it may lie on either side: both neighbours are possible.
toFixed2(value) ==
    LET low == (100 * value.num) \div value.den
        rest == (100 * value.num) % value.den
    IN  IF 2 * rest < value.den THEN {Rat(low, 100)}
        ELSE IF 2 * rest > value.den THEN {Rat(low + 1, 100)}
        ELSE {Rat(low, 100), Rat(low + 1, 100)}

\* Mutant: an entry order is sent on every tick that leaves a position
GatewayCalls_OrderWhileHeld(config, prevPositions, newPositions, symbol, price, id) ==
    IF symbol \in DOMAIN newPositions
    THEN {{[call |-> "submitOrder", symbol |-> symbol, id |-> id,
            qty |-> newPositions[symbol].quantity,
            side |-> IF newPositions[symbol].side = "long" THEN "buy" ELSE "sell",
            limit_price |-> limit]} :
             limit \in toFixed2(limitPrice(config, newPositions[symbol].side,
                                           price))}
    ELSE {{}}

\* the gateway calls handleMarketData makes after a decision that took the
\* symbol from prevPositions to newPositions at the tick price; id tells
\* the calls apart.  One set of calls for each value the limit can take.
GatewayCalls(config, prevPositions, newPositions, symbol, price, id) ==
    IF symbol \notin DOMAIN prevPositions /\ symbol \in DOMAIN newPositions
    THEN {{[call |-> "submitOrder", symbol |-> symbol, id |-> id,
            qty |-> newPositions[symbol].quantity,
            side |-> IF newPositions[symbol].side = "long" THEN "buy" ELSE "sell",
            limit_price |-> limit]} :
             limit \in toFixed2(limitPrice(config, newPositions[symbol].side,
                                           price))}
    ELSE IF symbol \in DOMAIN prevPositions /\ symbol \notin DOMAIN newPositions
    THEN {{[call |-> "closePosition", symbol |-> symbol, id |-> id,
            qty |-> 0, side |-> "none", limit_price |-> null]}}
    ELSE {{}}

\* number of ticks the live handler takes with its gateway calls in flight
MaxTicks == 3

\* two instruments, and one day's instants of the engine clock
LiveSymbols == {"AAPL", "MSFT"}
LiveTimes == {t \in EngineTimes : DayIndex(t) = DayIndex(EngineStartTime)}

\* bot.ts:67-147
LiveTick ==
    /\ steps < MaxTicks
    /\ \E symbol \in LiveSymbols, t \in LiveTimes, in \in EngineInputs :
          /\ t >= now
          /\ \E result \in {Decide(checkAndResetIfNeeded(risk, t), symbol, in, t)} :
                /\ closes + Closed(result, symbol) <= MaxCloses
                /\ now' = t
                /\ strategy' = result[1]
                /\ risk' = IF in.vwap = null THEN risk ELSE result[2]
                /\ closes' = closes + Closed(result, symbol)
                /\ \E calls \in (IF in.vwap = null THEN {{}}
                                  ELSE GatewayCalls(strategy.config,
                                                    strategy.positions,
                                                    result[1].positions, symbol,
                                                    LastPrice(in.vs), steps)) :
                      orders' = orders \cup calls
                /\ last' = [op |-> "handleMarketData", symbol |-> symbol,
                            price |-> LastPrice(in.vs)]
                /\ steps' = steps + 1
    /\ UNCHANGED <<shutdown, backtest, vwapState, hist, checkedDay>>

\* a rejection that undoes the decision the call came from
onRejected_Rollback(strategyState, riskState, order) ==
    <<[strategyState EXCEPT
          !.positions = MapDelete(strategyState.positions, order.symbol)],
      [riskState EXCEPT
          !.positions = MapDelete(riskState.positions, order.symbol)]>>

\* the .catch handlers of the two calls (bot.ts:124, 129): logger.error
onRejected(strategyState, riskState, order) == <<strategyState, riskState>>

\* the promise of a gateway call settles
GatewaySettle ==
    \E order \in orders, outcome \in {"fulfilled", "rejected"} :
        /\ orders' = orders \ {order}
        /\ \E result \in {IF outcome = "rejected"
                          THEN onRejected(strategy, risk, order)
                          ELSE <<strategy, risk>>} :
              /\ strategy' = result[1]
              /\ risk' = result[2]
        /\ last' = [op |-> "settled", order |-> order, outcome |-> outcome]
        /\ UNCHANGED <<shutdown, backtest, vwapState, hist, now, checkedDay, closes, steps>>

NextLive == LiveTick \/ GatewaySettle

SpecLive == InitLive /\ [][NextLive]_vars

\* C26: a step in which a submitOrder or closePosition call to the gateway
\* fails leaves the strategy state and the risk ledger as the tick decided
\* them and makes no new gateway call; after it the handler still accepts
\* the next tick.
C26_GatewayFailureKeepsState ==
    /\ [][(last'.op = "settled" /\ last'.outcome = "rejected") =>
             /\ strategy' = strategy
             /\ risk' = risk
             /\ orders' \subseteq orders]_vars
    /\ []((last.op = "settled" /\ last.outcome = "rejected" /\ steps < MaxTicks)
             => ENABLED LiveTick)

\* a rejected submitOrder whose position is still held by the strategy and
\* the ledger, with ticks still to come
C26_Witness ==
    /\ last.op = "settled" /\ last.outcome = "rejected"
    /\ last.order.call = "submitOrder"
    /\ last.order.symbol \in DOMAIN strategy.positions
    /\ last.order.symbol \in DOMAIN risk.positions
    /\ steps < MaxTicks

\* the arguments runBacktest hands to evaluateStrategy on bar
ArgsOn(bar) ==
    [riskState |-> checkDailyReset(risk, bar.Timestamp),
     vwapState |-> StepOn(bar, noDraw).vwapState,
     vwap |-> Val(getVWAP(StepOn(bar, noDraw).vwapState))]

\* ATR or RSI cannot be computed from the history vs
Insufficient(vs) ==
    \/ calculateATR(vs.dataPoints, atr_default_period) = null
    \/ calculateRSI(PricesOf(vs), OrElse(strategy.config.rsi_period, 14)) = null

C28_StopLossAlwaysActs ==
    \A bar \in NextBars :
        (/\ last.symbol \in DOMAIN strategy.positions
         /\ StopLossHolds(strategy.positions[last.symbol], bar.ClosePrice))
            => LET after == StepOn(bar, noDraw)
               IN  /\ last.symbol \notin DOMAIN after.strategyState.positions
                   /\ last.symbol \notin DOMAIN after.riskState.positions
                   /\ after.riskState.tradesToday
                         = ArgsOn(bar).riskState.tradesToday + 1

(***************************************************************************)
(* The replay driver over histories that try each of the market-regime     *)
(* filters of checkEntrySignals (part_001:431-502), with and without       *)
(* confirmation candles and a minimum ATR.                                 *)
(***************************************************************************)

FilterConfigs ==
    {[baseConfig EXCEPT !.require_confirmation = rc, !.min_atr_pct = atr] :
        rc \in {"true", "false"}, atr \in {null, Some(Rat(5, 100))}}

\* the VWAP state after feeding prices with their volumes to updateVWAP
RECURSIVE FeedVolumes(_, _, _)
FeedVolumes(state, prices, volumes) ==
    IF prices = <<>> THEN state
    ELSE FeedVolumes(updateVWAP(state, Head(prices), Head(volumes),
                                undefined, undefined),
                     Tail(prices), Tail(volumes))

\* n bars of volume 10 closed by a bar of volume v
VolumesEndingAt(n, v) == [i \in 1..n |-> IF i = n THEN v ELSE 10]

\* twenty bars swinging between 102 and 98 and a last bar at 95
Swing == [i \in 1..21 |-> IF i = 21 THEN 95 ELSE IF i % 2 = 1 THEN 102 ELSE 98]

\* a fall to 95 and a rise to 105 over fifteen bars, a fall to 95 in steps
\* of six (an ATR above five percent of the price), a flat market, a fall
\* to 95 over twenty-one bars on unchanged volume and on a doubled last
\* volume, a swinging market ended by a fall on doubled volume, and a rise
\* ended by a drop to 92 and a fall ended by a jump to 108 (far from the
\* average with a neutral RSI)
FilterWindows ==
    {FeedVolumes(createVWAPState(0), w[1], w[2]) :
        w \in {<<Ramp(WindowLen, 95, -1), VolumesEndingAt(WindowLen, 10)>>,
               <<Ramp(WindowLen, 105, 1), VolumesEndingAt(WindowLen, 10)>>,
               <<Ramp(WindowLen, 95, -6), VolumesEndingAt(WindowLen, 10)>>,
               <<Ramp(WindowLen, 100, 0), VolumesEndingAt(WindowLen, 10)>>,
               <<Ramp(21, 95, -1), VolumesEndingAt(21, 10)>>,
               <<Ramp(21, 95, -1), VolumesEndingAt(21, 20)>>,
               <<Swing, VolumesEndingAt(21, 20)>>,
               <<Append(Ramp(WindowLen - 1, 110, 1), 92),
                 VolumesEndingAt(WindowLen, 10)>>,
               <<Append(Ramp(WindowLen - 1, 90, -1), 108),
                 VolumesEndingAt(WindowLen, 10)>>}}

FilterInputs ==
    {[vs |-> w,
      vwap |-> getVWAP(w),
      atr |-> calculateATR(w.dataPoints, atr_default_period),
      rsi |-> [p \in RsiPeriods |-> calculateRSI(PricesOf(w), p)]] :
        w \in FilterWindows}

InitFilters ==
    /\ vwapState = idleVWAP
    /\ hist = <<>>
    /\ now = EngineStartTime
    /\ \E c \in FilterConfigs : strategy = createStrategyState(c)
    /\ risk = createRiskState(EngineStartTime)
    /\ checkedDay = DayIndex(EngineStartTime)
    /\ closes = 0
    /\ steps = 0
    /\ backtest = idleBacktest
    /\ orders = {}
    /\ shutdown = idleShutdown
    /\ last = [op |-> "runBacktest", symbol |-> "SPY"]

\* backtest.ts:58-158
FilterBar ==
    /\ steps < MaxSteps
    /\ \E t \in EngineTimes, in \in FilterInputs :
          /\ t >= now
          /\ \E result \in {Decide(checkDailyReset(risk, t), last.symbol, in, t)} :
                /\ closes + Closed(result, last.symbol) <= MaxCloses
                /\ now' = t
                /\ strategy' = result[1]
                /\ risk' = result[2]
                /\ closes' = closes + Closed(result, last.symbol)
                /\ last' = last
                /\ steps' = steps + 1
    /\ UNCHANGED <<shutdown, backtest, orders, vwapState, hist, checkedDay>>

NextFilters == FilterBar

SpecFilters == InitFilters /\ [][NextFilters]_vars

\* the observations the next bar may bring: a time and a history
FilterObservations ==
    {[symbol |-> last.symbol, t |-> t, in |-> in] :
        t \in {u \in EngineTimes : u >= now}, in \in FilterInputs}

\* one of the four filters rejects the observation
FilterFails(o) ==
    LET config == strategy.config
        points == o.in.vs.dataPoints
        prices == [i \in 1..Len(points) |-> points[i].price]
        vwaps == [i \in 1..Len(points) |-> VwapOrPrice(points[i])]
    IN  \/ OutsideSchedule(config, o.t)
        \/ LowVolume(config, o.in.vs)
        \/ LowVolatility(config, Val(o.in.atr), LastPrice(o.in.vs))
        \/ isChoppy(prices, vwaps, 20, config.chop_threshold)

\* C29: when the instrument is flat and the observation fails the session
\* time window, the relative-volume filter, the minimum-ATR filter or the
\* choppiness filter, evaluateStrategy returns the strategy state, pending
\* signals included, and the risk ledger exactly as given.
C29_FailedFilterChangesNothing ==
    \A o \in FilterObservations :
        (o.symbol \notin DOMAIN strategy.positions /\ FilterFails(o))
            => evaluateStrategy(strategy, checkDailyReset(risk, o.t), o.symbol,
                                LastPrice(o.in.vs), Val(o.in.vwap),
                                Some(o.in.vs), o.t)
                  = <<strategy, checkDailyReset(risk, o.t)>>

\* the filter named rejects o at a time when the ledger allows an entry
Fails(o, filter) ==
    LET config == strategy.config
        points == o.in.vs.dataPoints
        prices == [i \in 1..Len(points) |-> points[i].price]
        vwaps == [i \in 1..Len(points) |-> VwapOrPrice(points[i])]
    IN  /\ canOpenPosition(checkDailyReset(risk, o.t), o.t)
        /\ filter = "schedule" => OutsideSchedule(config, o.t)
        /\ filter = "volume" => LowVolume(config, o.in.vs)
        /\ filter = "atr" =>
              LowVolatility(config, Val(o.in.atr), LastPrice(o.in.vs))
        /\ filter = "chop" =>
              isChoppy(prices, vwaps, 20, config.chop_threshold)

\* a pending signal waits for the flat instrument, and the next bar may
\* fail each of the four filters
C29_Witness ==
    /\ "SPY" \notin DOMAIN strategy.positions
    /\ "SPY" \in DOMAIN strategy.pendingSignals
    /\ \A filter \in {"schedule", "volume", "atr", "chop"} :
          \E o \in FilterObservations : Fails(o, filter)

\* (price - VWAP) / VWAP of the observation o, and its RSI
DeviationOf(o) ==
    Rat(LastPrice(o.in.vs) * Val(o.in.vwap).den - Val(o.in.vwap).num,
        Val(o.in.vwap).num)

RsiOf(o) == o.in.rsi[OrElse(strategy.config.rsi_period, 14)]

\* the long and the short entry conditions of the specification
LongCondition(o) ==
    /\ RatLt(DeviationOf(o), Rat(-strategy.config.entry_threshold.num,
                                 strategy.config.entry_threshold.den))
    /\ RsiOf(o) # null
    /\ RatLt(Val(RsiOf(o)), Rat(OrElse(strategy.config.rsi_oversold, 40), 1))

ShortCondition(o) ==
    /\ RatLt(strategy.config.entry_threshold, DeviationOf(o))
    /\ RsiOf(o) # null
    /\ RatLt(Rat(OrElse(strategy.config.rsi_overbought, 60), 1), Val(RsiOf(o)))

\* the strategy state `after` the evaluation of o gives the instrument a
\* position of the given side or a pending signal of that side that it did
\* not have
SetupCreatedIn(o, after, side) ==
    \/ /\ o.symbol \notin DOMAIN strategy.positions
       /\ o.symbol \in DOMAIN after.positions
       /\ after.positions[o.symbol].side = side
    \/ /\ o.symbol \in DOMAIN after.pendingSignals
       /\ after.pendingSignals[o.symbol].type
             = (IF side = "long" THEN "potential_long" ELSE "potential_short")
       /\ \/ o.symbol \notin DOMAIN strategy.pendingSignals
          \/ strategy.pendingSignals[o.symbol] # after.pendingSignals[o.symbol]

SetupCreated(o, side) == SetupCreatedIn(o, Evaluated(o)[1], side)

\* the instrument of o is flat and has no pending signal
Idle(o) ==
    /\ o.symbol \notin DOMAIN strategy.positions
    /\ o.symbol \notin DOMAIN strategy.pendingSignals

\* what C30 asks of the evaluation of o
SetupRule(o) ==
    \A result \in {Evaluated(o)} :
        /\ SetupCreatedIn(o, result[1], "long") => LongCondition(o)
        /\ SetupCreatedIn(o, result[1], "short") => ShortCondition(o)
        /\ (Idle(o) /\ ~LongCondition(o) /\ ~ShortCondition(o))
              => result = <<strategy, TickRisk(o.t)>>

\* C30 as stated: a long position or pending long is created only on an
\* observation with deviation below -entry_threshold and RSI below the
\* oversold boundary, a short position or pending short only on one with
\* deviation above +entry_threshold and RSI above the overbought boundary,
\* and a flat instrument with no pending signal is left unchanged when
\* neither holds.
C30_SetupsOnlyOnSignal == \A o \in FilterObservations : SetupRule(o)

\* C30 amended: for an instrument that is flat with no pending signal, a
\* long position or pending long is created only on an observation with
\* deviation below -entry_threshold and RSI below the oversold boundary, a
\* short position or pending short only on one with deviation above
\* +entry_threshold and RSI above the overbought boundary, and the states
\* are returned unchanged when neither holds.  (A pending signal becomes a
\* position on a later observation that need not meet the condition.)
C30_SetupsFromIdleOnlyOnSignal ==
    \A o \in FilterObservations : Idle(o) => SetupRule(o)

\* an idle instrument for which the next observation can raise a long
\* setup, and for which another one, as far below the average but with a
\* neutral RSI, raises none
C30_Witness ==
    /\ \E o \in FilterObservations :
          Idle(o) /\ LongCondition(o) /\ SetupCreated(o, "long")
    /\ \E o \in FilterObservations :
          /\ Idle(o) /\ canOpenPosition(TickRisk(o.t), o.t)
          /\ ~OutsideSchedule(strategy.config, o.t)
          /\ RatLt(DeviationOf(o), Rat(-strategy.config.entry_threshold.num,
                                       strategy.config.entry_threshold.den))
          /\ ~LongCondition(o)
    /\ steps > 0

(***************************************************************************)
(* Entry sizing (part_001:65-83, 140-155) under the replay driver: a fixed *)
(* size of 0 and of 3 shares, and risk-percent sizing that stakes one      *)
(* percent of the balance, a hundred-thousandth of it, or names no         *)
(* max_risk_pct.                                                           *)
(***************************************************************************)

SizingConfigs ==
    {[baseConfig EXCEPT !.require_confirmation = rc, !.size = sz[1],
                        !.sizing_type = sz[2], !.max_risk_pct = sz[3]] :
        rc \in {"true", "false"},
        sz \in {<<0, "fixed", null>>,
                <<3, "fixed", null>>,
                <<3, "risk_pct", Some(Rat(1, 100))>>,
                <<3, "risk_pct", Some(Rat(1, 100000))>>,
                <<3, "risk_pct", null>>}}

InitSizing ==
    /\ vwapState = idleVWAP
    /\ hist = <<>>
    /\ now = EngineStartTime
    /\ \E c \in SizingConfigs : strategy = createStrategyState(c)
    /\ risk = createRiskState(EngineStartTime)
    /\ checkedDay = DayIndex(EngineStartTime)
    /\ closes = 0
    /\ steps = 0
    /\ backtest = idleBacktest
    /\ orders = {}
    /\ shutdown = idleShutdown
    /\ last = [op |-> "runBacktest", symbol |-> "SPY"]

NextSizing == FilterBar

SpecSizing == InitSizing /\ [][NextSizing]_vars

\* quantity is the whole part of n / d (d > 0), or 1 when that is below 1
FloorOrOne(quantity, n, d) ==
    IF n < d THEN quantity = 1
    ELSE quantity * d <= n /\ n < (quantity + 1) * d

\* the quantity the specification gives a position entered at entryPrice
\* with the given balance
SizedAsSpecified(config, quantity, balance, entryPrice) ==
    IF config.sizing_type = "risk_pct" /\ config.max_risk_pct # null
    THEN FloorOrOne(quantity,
                    balance * Val(config.max_risk_pct).num
                        * config.stop_loss_pct.den,
                    entryPrice * config.stop_loss_pct.num
                        * Val(config.max_risk_pct).den)
    ELSE quantity = (IF config.size < 1 THEN 1 ELSE config.size)

\* C31: every position the next evaluation opens has quantity >= 1: the
\* fixed configured size, or with risk_pct sizing
\* floor(currentBalance * max_risk_pct / (entryPrice * stop_loss_pct)), a
\* result below 1 being replaced by 1; and the ledger records the same
\* number of shares.
C31_QuantityAtLeastOne ==
    \A o \in FilterObservations :
        \A result \in {Decide(checkDailyReset(risk, o.t), o.symbol, o.in, o.t)} :
            (/\ o.symbol \notin DOMAIN strategy.positions
             /\ o.symbol \in DOMAIN result[1].positions)
                => LET opened == result[1].positions[o.symbol]
                   IN  /\ opened.quantity >= 1
                       /\ SizedAsSpecified(strategy.config, opened.quantity,
                                           risk.currentBalance,
                                           opened.entryPrice)
                       /\ Abs(result[2].positions[o.symbol].quantity)
                             = opened.quantity

\* a position of one share is held under risk-percent sizing whose quotient
\* is below one, after an earlier trade has changed the balance
C31_Witness ==
    /\ "SPY" \in DOMAIN strategy.positions
    /\ strategy.config.sizing_type = "risk_pct"
    /\ strategy.config.max_risk_pct = Some(Rat(1, 100000))
    /\ strategy.positions["SPY"].quantity = 1
    /\ risk.currentBalance # initial_capital

\* a position of more than one share is held under risk-percent sizing
C31_WitnessFloor ==
    /\ "SPY" \in DOMAIN strategy.positions
    /\ strategy.config.sizing_type = "risk_pct"
    /\ strategy.positions["SPY"].quantity > 3

(***************************************************************************)
(* Orders of the live handler (bot.ts:102-132)                             *)
(***************************************************************************)
\* the gateway calls made by the step
NewCalls == orders' \ orders

\* the value is value rounded to whole cents
RoundedToCents(limit, value) ==
    /\ limit.den = 100
    /\ 2 * Abs(limit.num * value.den - 100 * value.num) <= value.den

\* the step is a tick of the live handler that makes the calls the
\* specification asks for, the limit of an entry order being compared with
\* tick price * (1 +/- slippage) by LimitOk
OrdersAsSpecified(LimitOk(_, _)) ==
    last'.op = "handleMarketData" =>
        LET symbol == last'.symbol
            held == symbol \in DOMAIN strategy.positions
            holds == symbol \in DOMAIN strategy'.positions
        IN  /\ (~held /\ holds) =>
                  \E order \in NewCalls :
                      /\ NewCalls = {order}
                      /\ order.call = "submitOrder"
                      /\ order.symbol = symbol
                      /\ order.qty = strategy'.positions[symbol].quantity
                      /\ order.side
                            = (IF strategy'.positions[symbol].side = "long"
                               THEN "buy" ELSE "sell")
                      /\ LimitOk(order.limit_price,
                                 IF order.side = "buy"
                                 THEN Rat(last'.price
                                            * (slippageOf(strategy.config).den
                                               + slippageOf(strategy.config).num),
                                          slippageOf(strategy.config).den)
                                 ELSE Rat(last'.price
                                            * (slippageOf(strategy.config).den
                                               - slippageOf(strategy.config).num),
                                          slippageOf(strategy.config).den))
            /\ (held /\ ~holds) =>
                  \E order \in NewCalls :
                      /\ NewCalls = {order}
                      /\ order.call = "closePosition"
                      /\ order.symbol = symbol
            /\ (held <=> holds) => NewCalls = {}

\* C32 as stated: a tick of the live handler submits an entry order (buy
\* for long, sell for short, limit price equal to tick price * (1 +
\* slippage) for a long and tick price * (1 - slippage) for a short) exactly
\* when the instrument goes from no position to a position, a
\* close-position instruction exactly when it goes from a position to none,
\* and no order otherwise.
C32_OrdersFollowTransitions == [][OrdersAsSpecified(RatEq)]_vars

\* C32 amended: as above, the limit price being tick price * (1 + slippage)
\* or tick price * (1 - slippage) rounded to two decimal places.
C32_OrdersFollowTransitionsRounded == [][OrdersAsSpecified(RoundedToCents)]_vars

\* an entry order is in flight whose limit is not the unrounded product,
\* and a close-position instruction for the same instrument follows it
C32_Witness ==
    /\ last.op = "handleMarketData"
    /\ last.symbol \notin DOMAIN strategy.positions
    /\ \E entry, exit \in orders :
          /\ entry.call = "submitOrder" /\ entry.symbol = last.symbol
          /\ entry.limit_price = Rat(9514, 100)
          /\ exit.call = "closePosition" /\ exit.symbol = last.symbol
          /\ exit.id = steps - 1

\* C33: a tick evaluated for one instrument leaves the Position, the
\* PendingSignal and the ledger open-position entry of every other
\* instrument as they were, neither adding nor removing nor altering one.
C33_OtherInstrumentsUntouched ==
    [][last'.op = "handleMarketData" =>
          \A other \in LiveSymbols \ {last'.symbol} :
              /\ (other \in DOMAIN strategy'.positions)
                    <=> (other \in DOMAIN strategy.positions)
              /\ other \in DOMAIN strategy.positions
                    => strategy'.positions[other] = strategy.positions[other]
              /\ (other \in DOMAIN strategy'.pendingSignals)
                    <=> (other \in DOMAIN strategy.pendingSignals)
              /\ other \in DOMAIN strategy.pendingSignals
                    => strategy'.pendingSignals[other]
                          = strategy.pendingSignals[other]
              /\ (other \in DOMAIN risk'.positions)
                    <=> (other \in DOMAIN risk.positions)
              /\ other \in DOMAIN risk.positions
                    => risk'.positions[other] = risk.positions[other]]_vars

\* the last tick confirmed a pending signal of its instrument into a
\* position while the other instrument had a pending signal waiting
C33_Witness ==
    /\ last.op = "handleMarketData"
    /\ strategy.config.require_confirmation = "true"
    /\ last.symbol \in DOMAIN strategy.positions
    /\ last.symbol \in DOMAIN risk.positions
    /\ \E other \in LiveSymbols \ {last.symbol} :
          other \in DOMAIN strategy.pendingSignals

\* the last tick closed the position of its instrument while the other
\* instrument held one
C33_WitnessClose ==
    /\ last.op = "handleMarketData"
    /\ last.symbol \notin DOMAIN strategy.positions
    /\ risk.tradesToday > 0
    /\ \E other \in LiveSymbols \ {last.symbol} :
          /\ other \in DOMAIN strategy.positions
          /\ other \in DOMAIN risk.positions

\* C34: no instrument has both a Position and a PendingSignal; a pending
\* signal exists only while the instrument is flat, so the transition that
\* opens the position is the one that removes it.
C34_NoPositionWithPending ==
    \A symbol \in Symbols :
        ~(/\ symbol \in DOMAIN strategy.positions
          /\ symbol \in DOMAIN strategy.pendingSignals)

\* under confirmation candles an instrument holds a position, which a
\* pending signal of its own preceded, while another has a signal pending
C34_Witness ==
    /\ strategy.config.require_confirmation = "true"
    /\ \E held \in DOMAIN strategy.positions :
          \E waiting \in DOMAIN strategy.pendingSignals : held # waiting

\* the position p and the position q are one and the same holding
SamePosition(p, q) ==
    /\ p.side = q.side
    /\ p.entryPrice = q.entryPrice
    /\ p.entryTime = q.entryTime
    /\ p.quantity = q.quantity

\* C35: one bar makes at most one position transition for the instrument.
\* A position held before and after is the same holding (side, entry price,
\* entry time, quantity) with the same ledger entry and no close recorded;
\* an evaluation that opens a position records no close; one that closes a
\* position records exactly one close and leaves the instrument flat.
C35_OneTransitionPerEvaluation ==
    [][LET symbol == last.symbol
           held == symbol \in DOMAIN strategy.positions
           holds == symbol \in DOMAIN strategy'.positions
           given == checkDailyReset(risk, now')
       IN  /\ (held /\ holds) =>
                 /\ SamePosition(strategy.positions[symbol],
                                 strategy'.positions[symbol])
                 /\ risk'.positions[symbol] = risk.positions[symbol]
           /\ (held /\ ~holds) =>
                 /\ risk'.tradesToday = given.tradesToday + 1
                 /\ symbol \notin DOMAIN risk'.positions
           /\ ~(held /\ ~holds) => risk'.tradesToday = given.tradesToday]_vars

\* a short is held under immediate entries, and the next bar can close it
\* while meeting the long entry condition: the instrument is left flat
C35_Witness ==
    /\ strategy.config.require_confirmation = "false"
    /\ "SPY" \in DOMAIN strategy.positions
    /\ strategy.positions["SPY"].side = "short"
    /\ \E o \in FilterObservations :
          /\ LongCondition(o)
          /\ ~FilterFails(o)
          /\ canOpenPosition(closePosition(checkDailyReset(risk, o.t), "SPY",
                                           calculatePnL(strategy.positions["SPY"],
                                                        LastPrice(o.in.vs)),
                                           o.t), o.t)
          /\ "SPY" \notin DOMAIN Evaluated(o)[1].positions

(***************************************************************************)
(* isChoppy (config.ts:214-237) as a function of its arguments: histories  *)
(* of up to MaxChopLen observations with the price below, at and above the *)
(* average.                                                                *)
(***************************************************************************)
MaxChopLen == 4

ChopPrices == {9, 10, 11}
ChopVWAPs == {Rat(10, 1), Rat(21, 2)}
ChopThresholds == 0..3

SeqsUpTo(S, n) == UNION {[1..k -> S] : k \in 0..n}

InitChop ==
    /\ vwapState = idleVWAP
    /\ hist = <<>>
    /\ strategy = idleStrategy
    /\ risk = idleRisk
    /\ now = 0
    /\ checkedDay = 0
    /\ closes = 0
    /\ steps = 0
    /\ backtest = idleBacktest
    /\ orders = {}
    /\ shutdown = idleShutdown
    /\ \E prices \in SeqsUpTo(ChopPrices, MaxChopLen),
          vwaps \in SeqsUpTo(ChopVWAPs, MaxChopLen),
          period \in 1..MaxChopLen, threshold \in ChopThresholds :
          /\ Len(prices) = Len(vwaps)
          /\ last = [op |-> "arguments", prices |-> prices, vwaps |-> vwaps,
                     period |-> period, threshold |-> threshold,
                     result |-> FALSE]

\* the call isChoppy(prices, vwaps, period, threshold)
IsChoppyCall ==
    /\ last.op = "arguments"
    /\ last' = [last EXCEPT
                   !.op = "isChoppy",
                   !.result = isChoppy(last.prices, last.vwaps, last.period,
                                       last.threshold)]
    /\ UNCHANGED <<shutdown, backtest, orders, vwapState, hist, strategy, risk, now,
                   checkedDay, closes, steps>>

NextChop == IsChoppyCall

SpecChop == InitChop /\ [][NextChop]_vars

\* observation i of the call has its price above its VWAP
AboveAt(i) == last.prices[i] * last.vwaps[i].den > last.vwaps[i].num

\* the changes of side between consecutive observations among the trailing
\* `period` observations of the call
SideChanges ==
    {i \in (Len(last.prices) - last.period + 2)..Len(last.prices) :
        AboveAt(i) # AboveAt(i - 1)}

\* C36: isChoppy returns true exactly when the number of changes of side
\* of price relative to VWAP (above versus not above) between consecutive
\* observations within the trailing `period` observations is at least
\* threshold, and false whenever fewer than `period` observations are
\* available.
C36_ChoppyIffEnoughCrossings ==
    last.op = "isChoppy" =>
        last.result = (/\ Len(last.prices) >= last.period
                       /\ Cardinality(SideChanges) >= last.threshold)

\* a call that returns true on exactly threshold changes of side, two of
\* them, after an earlier change that lies outside the trailing period
C36_Witness ==
    /\ last.op = "isChoppy"
    /\ last.result
    /\ last.threshold = 2
    /\ Cardinality(SideChanges) = 2
    /\ Len(last.prices) > last.period
    /\ AboveAt(Len(last.prices) - last.period + 1)
          # AboveAt(Len(last.prices) - last.period)

\* a call with fewer observations than the period and a threshold of 0
C36_WitnessShort ==
    /\ last.op = "isChoppy"
    /\ ~last.result
    /\ last.threshold = 0
    /\ Len(last.prices) < last.period

\* sum of pnl over the trade records
RECURSIVE SumOfPnL(_)
SumOfPnL(trades) ==
    IF trades = <<>> THEN 0 ELSE Head(trades).pnl + SumOfPnL(Tail(trades))

\* C37: the totalPnL reported by runBacktest after any number of bars, on
\* one calendar day or more, equals the sum of pnl over the TradeRecords of
\* the report, and winningTrades + losingTrades = totalTrades.
C37_TotalPnLIsSumOfTrades ==
    LET report == BacktestResult(Run)
    IN  /\ report.totalPnL = SumOfPnL(report.trades)
        /\ report.winningTrades + report.losingTrades = report.totalTrades

(***************************************************************************)
(* Start and shutdown of the live process (index.ts:37-58, bot.ts:214-285, *)
(* alpaca-client.ts:74-92, 167-225).  runBot works on its own copy of the  *)
(* BotState; the signal handlers call stopBot with the BotState createBot  *)
(* returned.  stopBot awaits the gateway in closeAllPositions, and bars    *)
(* delivered meanwhile run handleMarketData.                               *)
(***************************************************************************)
ShutdownConfigs == {[baseConfig EXCEPT !.require_confirmation = "false"]}

InitShutdown ==
    /\ vwapState = idleVWAP
    /\ hist = <<>>
    /\ now = EngineStartTime
    /\ \E c \in ShutdownConfigs : strategy = createStrategyState(c)
    /\ risk = createRiskState(EngineStartTime)
    /\ checkedDay = DayIndex(EngineStartTime)
    /\ closes = 0
    /\ steps = 0
    /\ backtest = idleBacktest
    /\ orders = {}
    /\ shutdown = idleShutdown
    /\ last = [op |-> "createBot"]

\* runBot: subscribeToMarketData connects the stream and the result is
\* stored in runBot's local state (bot.ts:244-254)
RunBotSubscribe ==
    /\ shutdown.run = "starting"
    /\ shutdown.stop = "idle"
    /\ shutdown' = [shutdown EXCEPT !.run = "listening",
                                    !.runDataStream = Some("data_stream_v2"),
                                    !.connected = TRUE]
    /\ UNCHANGED <<vwapState, hist, strategy, risk, now, checkedDay, closes,
                   steps, last, backtest, orders>>

\* a bar delivered by the connected stream while the event loop is free:
\* before the signal, or while stopBot awaits the gateway
StreamTick ==
    /\ shutdown.connected
    /\ shutdown.stop \in {"idle", "getPositions", "closePosition"}
    /\ LiveTick

\* SIGINT or SIGTERM: stopBot(bot) starts closeAllPositions, which awaits
\* getPositions (index.ts:37-50, bot.ts:276, alpaca-client.ts:76)
Signal ==
    /\ shutdown.stop = "idle"
    /\ shutdown' = [shutdown EXCEPT !.stop = "getPositions"]
    /\ last' = [op |-> "stopBot"]
    /\ UNCHANGED <<vwapState, hist, strategy, risk, now, checkedDay, closes,
                   steps, backtest, orders>>

\* getPositions has answered; closeAllPositions awaits closePosition for
\* each position of the answer (alpaca-client.ts:85-87)
CloseAllPositionsRead ==
    /\ shutdown.stop = "getPositions"
    /\ shutdown' = [shutdown EXCEPT !.stop = "closePosition"]
    /\ last' = [op |-> "getPositions"]
    /\ UNCHANGED <<vwapState, hist, strategy, risk, now, checkedDay, closes,
                   steps, backtest, orders>>

\* alpaca-client.ts:214-225 on the AlpacaState it is given
unsubscribeFromMarketData(alpaca, connected) ==
    IF alpaca.dataStream # null THEN FALSE ELSE connected

\* closeAllPositions is done; stopBot calls unsubscribeFromMarketData with
\* the alpaca of the BotState it was given and returns (bot.ts:279-284)
StopBotUnsubscribe ==
    /\ shutdown.stop = "closePosition"
    /\ shutdown' =
          [shutdown EXCEPT
              !.stop = "stopped",
              !.connected =
                  unsubscribeFromMarketData(
                      [dataStream |-> shutdown.botDataStream], shutdown.connected)]
    /\ last' = [op |-> "unsubscribeFromMarketData"]
    /\ UNCHANGED <<vwapState, hist, strategy, risk, now, checkedDay, closes,
                   steps, backtest, orders>>

\* process.exit(0) in the continuation of `await stopBot(bot)`
ProcessExit ==
    /\ shutdown.stop = "stopped"
    /\ shutdown' = [shutdown EXCEPT !.stop = "exited"]
    /\ last' = [op |-> "process.exit"]
    /\ UNCHANGED <<vwapState, hist, strategy, risk, now, checkedDay, closes,
                   steps, backtest, orders>>

NextShutdown ==
    \/ RunBotSubscribe
    \/ StreamTick
    \/ Signal
    \/ CloseAllPositionsRead
    \/ StopBotUnsubscribe
    \/ ProcessExit

SpecShutdown == InitShutdown /\ [][NextShutdown]_vars

\* C38: once stopBot has completed, the market-data stream subscribed by
\* runBot is disconnected and no tick runs; and no position is opened once
\* closeAllPositions has read the positions it closes.
C38_StopBotDisconnectsStream ==
    /\ [](shutdown.stop \in {"stopped", "exited"} => ~shutdown.connected)
    /\ [][shutdown.stop \in {"stopped", "exited"} => strategy' = strategy]_vars
    /\ [][shutdown.stop = "closePosition"
             => DOMAIN strategy'.positions \subseteq DOMAIN strategy.positions]_vars

(***************************************************************************)
(* The replay driver with a rolling VWAP window of 1 to 14 samples         *)
(* (config.strategy.vwap.period, backtest.ts:50) over histories longer     *)
(* than the 15 samples of the default ATR.                                 *)
(***************************************************************************)
RollingPeriods == 1..atr_default_period

\* a fall to 95 and a rise to 105 over twenty-one bars
RollingTapes ==
    {BarsFrom(ReplayStart, w) : w \in {Ramp(21, 95, -1), Ramp(21, 105, 1)}}

\* immediate entries, with the RSI over fourteen bars and over five
RollingConfigs ==
    {[baseConfig EXCEPT !.require_confirmation = "false"],
     [baseConfig EXCEPT !.require_confirmation = "false",
                        !.rsi_period = Some(5)]}

InitRolling ==
    /\ \E bars \in RollingTapes :
          /\ last = [op |-> "runBacktest", symbol |-> "SPY", bars |-> bars]
          /\ now = bars[1].Timestamp
          /\ risk = createRiskState(bars[1].Timestamp)
          /\ checkedDay = DayIndex(bars[1].Timestamp)
    /\ \E c \in RollingConfigs : strategy = createStrategyState(c)
    /\ \E period \in RollingPeriods : vwapState = createVWAPState(period)
    /\ hist = <<>>
    /\ closes = 0
    /\ steps = 0
    /\ backtest = idleBacktest
    /\ orders = {}
    /\ shutdown = idleShutdown

NextRolling == ReplayBar

SpecRolling == InitRolling /\ [][NextRolling]_vars

\* C39: with a rolling VWAP window of 1 to 14 samples the retained history
\* stays below the 15 samples of the default ATR, evaluateStrategy returns
\* its arguments unchanged on every next bar, and no position, pending
\* signal, ledger entry or trade ever exists.
C39_ShortWindowNeverTrades ==
    /\ Len(vwapState.dataPoints) < atr_default_period + 1
    /\ strategy.positions = <<>>
    /\ strategy.pendingSignals = <<>>
    /\ risk.positions = <<>>
    /\ risk.currentBalance = initial_capital
    /\ backtest.trades = <<>>
    /\ \A bar \in NextBars :
          getVWAP(StepOn(bar, noDraw).vwapState) # null
              => LET a == ArgsOn(bar)
                 IN  evaluateStrategy(strategy, a.riskState, last.symbol,
                                      bar.ClosePrice, a.vwap, Some(a.vwapState),
                                      bar.Timestamp)
                        = <<strategy, a.riskState>>

\* more than 15 bars have been fed to a full window of 14 whose last price
\* is further below the average than the entry threshold, and a next bar
\* stays as far below it
C39_Witness ==
    /\ vwapState.period = atr_default_period
    /\ Len(hist) > atr_default_period + 1
    /\ Len(vwapState.dataPoints) = atr_default_period
    /\ DeviationBelow(LastPrice(vwapState), Val(getVWAP(vwapState)),
                      strategy.config.entry_threshold)
    /\ \E bar \in NextBars :
          /\ getVWAP(StepOn(bar, noDraw).vwapState) # null
          /\ DeviationBelow(bar.ClosePrice, ArgsOn(bar).vwap,
                            strategy.config.entry_threshold)

(***************************************************************************)
(* handleMarketData with its try/catch (bot.ts:67-147): one instrument,    *)
(* the VWAP window kept in the BotState, and an exception raised by any of *)
(* the calls of the handler on up to MaxThrows ticks.                       *)
(***************************************************************************)
\* ticks on which an exception is raised
MaxThrows == 2

\* the call that raises the exception: none, updateVWAP (bot.ts:79),
\* checkAndResetIfNeeded (90), evaluateStrategy (93), or a statement of the
\* entry / exit block before its gateway call (102-131)
ThrowPoints == {"none", "updateVWAP", "checkAndResetIfNeeded",
                "evaluateStrategy", "order"}

\* Mutant: the catch block keeps the VWAP window updated before the throw
handleMarketData_KeepsVWAP(state, symbol, data, currentTime, id, throwAt) ==
    LET updatedVWAPState ==
            updateVWAP(state.vwapState, data.price, data.volume,
                       undefined, undefined)
        vwap == getVWAP(updatedVWAPState)
        newRisk == checkAndResetIfNeeded(state.risk, currentTime)
        e == evaluateStrategy(state.strategy, newRisk, symbol, data.price,
                              Val(vwap), Some(updatedVWAPState), currentTime)
        calls == GatewayCalls(state.strategy.config, state.strategy.positions,
                              e[1].positions, symbol, data.price, id)
    IN  IF throwAt = "updateVWAP"
        THEN [state |-> state, calls |-> {{}}, threw |-> TRUE]
        ELSE IF vwap = null
        THEN [state |-> [state EXCEPT !.vwapState = updatedVWAPState],
              calls |-> {{}}, threw |-> FALSE]
        ELSE IF throwAt \in {"checkAndResetIfNeeded", "evaluateStrategy"}
                \/ (throwAt = "order" /\ calls # {{}})
        THEN [state |-> [state EXCEPT !.vwapState = updatedVWAPState],
              calls |-> {{}}, threw |-> TRUE]
        ELSE [state |-> [vwapState |-> updatedVWAPState, strategy |-> e[1],
                         risk |-> e[2]],
              calls |-> calls, threw |-> FALSE]

\* handleMarketData on the BotState `state` (its VWAP window, strategy
\* state and ledger) at the instant currentTime, the exception being raised
\* at throwAt: the BotState returned, the alternatives for the gateway
\* calls made, and whether the catch block ran
handleMarketData(state, symbol, data, currentTime, id, throwAt) ==
    LET updatedVWAPState ==
            updateVWAP(state.vwapState, data.price, data.volume,
                       undefined, undefined)
        vwap == getVWAP(updatedVWAPState)
        newRisk == checkAndResetIfNeeded(state.risk, currentTime)
        e == evaluateStrategy(state.strategy, newRisk, symbol, data.price,
                              Val(vwap), Some(updatedVWAPState), currentTime)
        calls == GatewayCalls(state.strategy.config, state.strategy.positions,
                              e[1].positions, symbol, data.price, id)
    IN  IF throwAt = "updateVWAP"
        THEN [state |-> state, calls |-> {{}}, threw |-> TRUE]
        ELSE IF vwap = null
        THEN [state |-> [state EXCEPT !.vwapState = updatedVWAPState],
              calls |-> {{}}, threw |-> FALSE]
        ELSE IF throwAt \in {"checkAndResetIfNeeded", "evaluateStrategy"}
                \/ (throwAt = "order" /\ calls # {{}})
        THEN [state |-> state, calls |-> {{}}, threw |-> TRUE]
        ELSE [state |-> [vwapState |-> updatedVWAPState, strategy |-> e[1],
                         risk |-> e[2]],
              calls |-> calls, threw |-> FALSE]

\* a fall to 95 over fifteen bars, then 95 again and 92 (under the stop of
\* a long entered at 95); a rise to 105, then 105 again and 109 (over the
\* stop of a short entered at 105)
ThrowTapes ==
    {BarsFrom(ReplayStart, w) :
        w \in {Ramp(WindowLen, 95, -1) \o <<95, 92>>,
               Ramp(WindowLen, 105, 1) \o <<105, 109>>}}

\* the bar the stream delivers next
NextTicks == IF steps < Len(last.bars) THEN {last.bars[steps + 1]} ELSE {}

InitThrow ==
    /\ \E bars \in ThrowTapes :
          /\ last = [op |-> "createBot", symbol |-> "AAPL", bars |-> bars,
                     threw |-> FALSE, throws |-> 0, decided |-> FALSE]
          /\ now = bars[1].Timestamp
          /\ risk = createRiskState(bars[1].Timestamp)
          /\ checkedDay = DayIndex(bars[1].Timestamp)
    /\ \E c \in LiveConfigs : strategy = createStrategyState(c)
    /\ vwapState = createVWAPState(vwap_period)
    /\ hist = <<>>
    /\ closes = 0
    /\ steps = 0
    /\ backtest = idleBacktest
    /\ orders = {}
    /\ shutdown = idleShutdown

BotState == [vwapState |-> vwapState, strategy |-> strategy, risk |-> risk]

\* the stream delivers the next bar to handleMarketData (bot.ts:247-252,
\* alpaca-client.ts:184-192)
ThrowTick ==
    \E bar \in NextTicks, throwAt \in ThrowPoints :
        \E handled \in {handleMarketData(BotState, last.symbol,
                                         [price |-> bar.ClosePrice,
                                          volume |-> bar.Volume],
                                         bar.Timestamp, steps, throwAt)} :
            /\ handled.threw => last.throws < MaxThrows
            /\ vwapState' = handled.state.vwapState
            /\ strategy' = handled.state.strategy
            /\ risk' = handled.state.risk
            /\ \E calls \in handled.calls : orders' = orders \cup calls
            /\ closes' = closes + (IF last.symbol \in DOMAIN strategy.positions
                                      /\ last.symbol \notin
                                            DOMAIN handled.state.strategy.positions
                                   THEN 1 ELSE 0)
            /\ hist' = Append(hist, bar)
            /\ now' = bar.Timestamp
            /\ steps' = steps + 1
            /\ last' = [last EXCEPT
                           !.op = "handleMarketData",
                           !.threw = handled.threw,
                           !.throws = IF handled.threw THEN @ + 1 ELSE @,
                           !.decided =
                               handleMarketData(BotState, last.symbol,
                                                [price |-> bar.ClosePrice,
                                                 volume |-> bar.Volume],
                                                bar.Timestamp, steps,
                                                "none").state.strategy
                                  # strategy]
            /\ UNCHANGED <<shutdown, backtest, checkedDay>>

NextThrow == ThrowTick

SpecThrow == InitThrow /\ [][NextThrow]_vars

\* C40: a tick on which handleMarketData throws, at whatever step, leaves
\* the VWAP window, the strategy state and the risk ledger as they were and
\* makes no gateway call.
C40_ThrowLeavesStateUnchanged ==
    [][(last'.op = "handleMarketData" /\ last'.threw) =>
          /\ vwapState' = vwapState
          /\ strategy' = strategy
          /\ risk' = risk
          /\ orders' = orders]_vars

\* the last tick threw after evaluateStrategy had decided a change of the
\* strategy state, the window holding the samples of every earlier tick;
\* the instrument is flat and nothing was sent to the gateway
C40_Witness ==
    /\ last.op = "handleMarketData"
    /\ last.threw
    /\ last.decided
    /\ Len(vwapState.dataPoints) = Len(hist) - 1
    /\ Len(hist) >= WindowLen
    /\ strategy.positions = <<>>
    /\ orders = {}

====
